---- MODULE Spec2Model ----
(***************************************************************************)
(* State-machine model of the search-and-copy engine of SmartFileCopier   *)
(* (src/file_copy.py): CopyWorker.run_file_copy_task, proceed_with_copy,  *)
(* copy_files, get_unique_filename, get_file_hash, stop, and the function *)
(* search_files_for_copy.                                                 *)
(*                                                                         *)
(* Names (of folders and of files) are sequences of tokens; a token is a  *)
(* maximal run of characters that the program treats as a unit.  Paths    *)
(* are sequences of names.  File contents are natural numbers; content 0  *)
(* is the empty file.  SHA-256 is taken to be injective on contents.      *)
(***************************************************************************)
EXTENDS Integers, Sequences, FiniteSets, TLC

(* ---------------- bounds of the model ---------------- *)
MaxFiles == 2
MaxRuns == 2
MaxFaults == 1

(* ---------------- program constants ---------------- *)
ConfirmThreshold == 20
MaxRenameAttempts == 1000

COPY_TARGET_EXTENSIONS == {".xlsx", ".dxd", ".d7d"}
PatternVocabulary == {"of", "uf", "if"}

None == "None"

Range(s) == {s[i] : i \in 1..Len(s)}

(* ---------------- keyword classification ---------------- *)
\* kw.lower().strip() on the keyword strings the model uses
LowerStrip(kw) ==
    CASE kw = "OF" -> "of"
      [] kw = " 5.4.4 " -> "5.4.4"
      [] OTHER -> kw

\* kw.strip()
Strip(kw) == IF kw = " 5.4.4 " THEN "5.4.4" ELSE kw

\* str.lower() on the name tokens the model uses
Lower(t) ==
    CASE t = "OF" -> "of"
      [] t = ".DXD" -> ".dxd"
      [] OTHER -> t

normalize_turkish(text) == IF text = "DOTLESS_I_f" THEN "if" ELSE text

\* the strings FOLDER_NUM_REGEX.match accepts: digits.digits.digits, then
\* nothing or an underscore and a suffix
DottedTriples == {"5.4.4", "1.2.3"}
MatchesFolderNumRegex(s) == s \in DottedTriples \/ s \in {"5.4.4_x"}

pattern_keywords_set(keywords) ==
    {normalize_turkish(LowerStrip(kw)) : kw \in Range(keywords)} \cap PatternVocabulary

number_keywords_set(keywords) ==
    {Strip(kw) : kw \in {k \in Range(keywords) : MatchesFolderNumRegex(Strip(k))}}

\* the test for valid keywords left out
NoValidKeywords_Never(keywords) == FALSE

\* line 407: not pattern_keywords_set and not number_keywords_set
NoValidKeywords(keywords) ==
    pattern_keywords_set(keywords) = {} /\ number_keywords_set(keywords) = {}

(* ---------------- path classifier ---------------- *)
\* _extract_folder_number on a (lowercased) folder name given as tokens
_extract_folder_number(folder_name) ==
    IF /\ Len(folder_name) >= 1
       /\ folder_name[1] \in DottedTriples
       /\ (Len(folder_name) = 1 \/ folder_name[2] = "_")
    THEN folder_name[1]
    ELSE None

(* ---------------- the source trees ---------------- *)
RootDir == << <<"r">> >>
DirF    == << <<"r">>, <<"5.4.4", "_", "f">> >>
DirX    == << <<"r">>, <<"x">> >>
DirXF   == << <<"r">>, <<"x">>, <<"5.4.4", "_", "f">> >>

\* a second source root
Root2   == << <<"s">> >>

\* the source folders of the task, in the order of the list handed to it
VARIABLE source_folders

\* normalized_source_folders, as the set the root tests go through
source_roots == Range(source_folders)

\* the list the tasks use unless said otherwise
TwoRoots == <<RootDir, Root2>>

\* the files a small tree can hold, in the order the scan meets them
SmallPaths ==
    << [dir |-> DirXF,   stem |-> <<"a">>,               ext |-> ".dxd"],
       [dir |-> DirX,    stem |-> <<"a">>,               ext |-> ".dxd"],
       [dir |-> DirF,    stem |-> <<"b", "_", "of">>,    ext |-> ".xlsx"],
       [dir |-> DirF,    stem |-> <<"a">>,               ext |-> ".dxd"],
       [dir |-> RootDir, stem |-> <<"a", "_", "5.4.4">>, ext |-> ".dxd"] >>

WithContent(p, c) == [dir |-> p.dir, stem |-> p.stem, ext |-> p.ext, content |-> c]

\* contents are interchangeable but for the empty file, so a tree numbers its
\* non-empty contents in the order of their first appearance
Canonical(g) ==
    \A i \in DOMAIN g :
        g[i] > 1 => \E j \in DOMAIN g : j < i /\ g[j] = g[i] - 1

\* the tree that holds the files of SmallPaths that cf gives a content
SmallTree(cf) ==
    LET present == SelectSeq([i \in 1..Len(SmallPaths) |-> i], LAMBDA i : i \in DOMAIN cf)
    IN  [k \in 1..Len(present) |-> WithContent(SmallPaths[present[k]], cf[present[k]])]

SmallTrees ==
    {SmallTree(cf) : cf \in UNION {{g \in [S -> 0..MaxFiles] : Canonical(g)} :
                                      S \in {T \in SUBSET (1..Len(SmallPaths)) :
                                                 Cardinality(T) <= MaxFiles}}}

\* n files with pairwise different content in one numbered folder
BulkTree(n) ==
    [i \in 1..n |-> [dir |-> DirF, stem |-> <<"d", ToString(9 + i)>>, ext |-> ".dxd",
                     content |-> i]]

\* the smallest batch in which a progress value computed in double precision
\* is not the exact quotient
LargeBatch == 50

BulkTrees ==
    {BulkTree(ConfirmThreshold), BulkTree(ConfirmThreshold + 1), BulkTree(LargeBatch)}

(* ---------------- keyword matcher ---------------- *)
ProperSubstrings == {<<"profile", "of">>}
TokenContains(tok, kw) == tok = kw \/ <<tok, kw>> \in ProperSubstrings

\* kw in filename_lower_normalized
NameContains(f, kw) ==
    \E i \in 1..Len(f.stem) : TokenContains(normalize_turkish(Lower(f.stem[i])), kw)

\* every number keyword taken to be in the file name
FileNumberMatches_Any(f, number_keywords) == number_keywords

\* every pattern keyword taken to be in the file name
PatternMatches_Any(f, pattern_keywords) == pattern_keywords

\* the candidates of next(num_kw for num_kw in number_keywords if ...)
FileNumberMatches(f, number_keywords) == {n \in number_keywords : NameContains(f, n)}
PatternMatches(f, pattern_keywords) == {p \in pattern_keywords : NameContains(f, p)}

LastOf(s) == s[Len(s)]

\* last_folder_name of a file: empty when its parent is a source root
LastFolderName(f) == IF f.dir \in source_roots THEN <<>> ELSE LastOf(f.dir)

\* a folder number taken as a match whether or not it is a keyword
FolderHasNumberMatch_AnyNumber(current_folder_number, number_keywords) ==
    current_folder_number # None

\* line 78: current_folder_number and current_folder_number in number_keywords
FolderHasNumberMatch(current_folder_number, number_keywords) ==
    current_folder_number # None /\ current_folder_number \in number_keywords

\* the number in the file name taken first, the folder number only without one
associated_number_FileFirst(folder_match, current_folder_number, file_number_matches) ==
    IF file_number_matches # {} THEN file_number_matches
    ELSE IF folder_match THEN {current_folder_number}
    ELSE {}

\* line 110: current_folder_number if current_folder_has_number_match else
\* file_number_match, the latter any number keyword found in the file name
associated_number(folder_match, current_folder_number, file_number_matches) ==
    IF folder_match THEN {current_folder_number}
    ELSE file_number_matches

\* the match records search_files_for_copy can produce for one file entry:
\* (filepath, found_by_keyword, associated_number, last_folder_name); the
\* empty set when the file is not matched
MatchRecords(f, pattern_keywords, number_keywords) ==
    LET current_folder_number == _extract_folder_number(LastOf(f.dir))
        current_folder_has_number_match ==
            FolderHasNumberMatch(current_folder_number, number_keywords)
        fileNums == FileNumberMatches(f, number_keywords)
        assocs == associated_number(current_folder_has_number_match,
                                    current_folder_number, fileNums)
        file_ext_lower == Lower(f.ext)
        keys(num) == IF file_ext_lower = ".xlsx" THEN PatternMatches(f, pattern_keywords)
                     ELSE IF file_ext_lower \in {".dxd", ".d7d"} THEN {num}
                     ELSE {}
    IN  IF file_ext_lower \notin COPY_TARGET_EXTENSIONS THEN {}
        ELSE {[file |-> f, key |-> k, number |-> num, last_folder_name |-> LastFolderName(f)] :
                 <<num, k>> \in {nk \in assocs \X (PatternVocabulary \cup number_keywords) :
                                   nk[2] \in keys(nk[1])}}

(* ---------------- ordering of keywords and paths ---------------- *)
\* the keyword strings of the model in the order Python compares str
KeywordOrder == <<" 5.4.4 ", "1.2.3", "5.4.4", "5.4.4_x", "OF", "UNKNOWN_MAP", "foo", "of", "uf">>
KeywordRank(kw) == CHOOSE i \in 1..Len(KeywordOrder) : KeywordOrder[i] = kw

\* the tokens of source paths in the order Python compares str
TokenOrder ==
    <<".DXD", ".d7d", ".dxd", ".txt", ".xlsx", "/", "1.2.3">> \o
    [i \in 1..40 |-> ToString(9 + i)] \o <<"5.4.4">> \o
    [i \in 1..50 |-> ToString(49 + i)] \o
    <<"OF", "_", "a", "b", "d", "f", "of", "profile", "r", "s", "x">>
TokenRank(t) == CHOOSE i \in 1..Len(TokenOrder) : TokenOrder[i] = t

RECURSIVE JoinDir(_)
JoinDir(dir) == IF dir = <<>> THEN <<>> ELSE dir[1] \o <<"/">> \o JoinDir(Tail(dir))

\* the file path as the string the program sorts by
PathTokens(f) == JoinDir(f.dir) \o f.stem \o <<f.ext>>

RECURSIVE SeqLess(_, _)
SeqLess(s, t) ==
    IF s = <<>> THEN t # <<>>
    ELSE IF t = <<>> THEN FALSE
    ELSE IF TokenRank(s[1]) # TokenRank(t[1]) THEN TokenRank(s[1]) < TokenRank(t[1])
    ELSE SeqLess(Tail(s), Tail(t))

PathLess(f, g) == SeqLess(PathTokens(f), PathTokens(g))

(* ---------------- regrouping of the search results ---------------- *)
Max(S) == CHOOSE x \in S : \A y \in S : y <= x

\* original_keyword_map.get(found_by_kw), with the fallbacks of the loop
original_user_keyword(found_by_kw, keywords) ==
    LET nums == number_keywords_set(keywords)
        pats == {i \in 1..Len(keywords) :
                    /\ normalize_turkish(LowerStrip(keywords[i])) \in PatternVocabulary
                    /\ normalize_turkish(LowerStrip(keywords[i])) = found_by_kw}
    IN  IF found_by_kw \in nums THEN found_by_kw
        ELSE IF pats # {} THEN keywords[Max(pats)]
        ELSE "UNKNOWN_MAP"

\* all_paths_list, flattened: groups in sorted keyword order, file paths
\* sorted within each group
RecordLess(keywords, r1, r2) ==
    LET k1 == KeywordRank(original_user_keyword(r1.key, keywords))
        k2 == KeywordRank(original_user_keyword(r2.key, keywords))
    IN  IF k1 # k2 THEN k1 < k2 ELSE PathLess(r1.file, r2.file)

\* the records handed to copy_files in the order the search found them
all_paths_list_Unsorted(details, keywords) == details

all_paths_list(details, keywords) ==
    SortSeq(details, LAMBDA r1, r2 : RecordLess(keywords, r1, r2))

\* the threshold test taken one too low
NeedsConfirmation_AtThreshold(total_files_found) == total_files_found >= ConfirmThreshold

\* total_files_found > 20
NeedsConfirmation(total_files_found) == total_files_found > ConfirmThreshold

(* ---------------- the destination ---------------- *)
\* the destination folder taken from the keyword of the group
DestPath_ByKeyword(rec) ==
    [folder |-> <<rec.key>>, stem |-> rec.file.stem, ext |-> rec.file.ext]

\* dest_path of a record: destination_folder[/last_folder_name]/base_filename
DestPath(rec) ==
    [folder |-> rec.last_folder_name, stem |-> rec.file.stem, ext |-> rec.file.ext]

Renamed(p, counter) ==
    [folder |-> p.folder, stem |-> p.stem \o <<"_", ToString(counter)>>, ext |-> p.ext]

ManyDuplicates(p, counter) ==
    [folder |-> p.folder, stem |-> p.stem \o <<"_ MANY_DUPLICATES_", ToString(counter)>>,
     ext |-> p.ext]

Min(S) == CHOOSE x \in S : \A y \in S : x <= y

\* the while loop of get_unique_filename: it leaves with the first counter
\* in 1..1000 whose name is free, and with the fallback name once the
\* counter passes 1000
ProbeNames(existing, p) ==
    LET free == {counter \in 1..MaxRenameAttempts : Renamed(p, counter) \notin existing}
    IN  IF free = {} THEN ManyDuplicates(p, MaxRenameAttempts + 1)
        ELSE Renamed(p, Min(free))

\* the rename step skipped: the computed path is used as it is
get_unique_filename_Same(existing, dest_path) == dest_path

get_unique_filename(existing, dest_path) ==
    IF dest_path \notin existing THEN dest_path ELSE ProbeNames(existing, dest_path)

\* the pairs (items_processed, total_items), total_items below 60, for which
\* the double (items_processed / total_items) * 100 is below the exact value
\* 100 * items_processed / total_items although that value is an integer:
\* 29 / 50 is the double 0.57999999999999996, and times 100 it rounds to
\* 57.99999999999999
RoundedBelow == {<<29, 50>>}

\* int((items_processed / total_items) * 100) if total_items > 0 else 0,
\* the division and the product in double precision, int() truncating
Progress(items_processed, total_items) ==
    IF total_items > 0
    THEN IF <<items_processed, total_items>> \in RoundedBelow
         THEN (items_processed * 100) \div total_items - 1
         ELSE (items_processed * 100) \div total_items
    ELSE 0

\* whether get_file_hash polls the running flag: once per chunk read, so
\* never for the empty file
HashPolls(content) == content # 0

EmptyDest == [p \in {} |-> 0]
DestA == [folder |-> <<"5.4.4", "_", "f">>, stem |-> <<"a">>, ext |-> ".dxd"]

SmallDests == {EmptyDest} \cup {[p \in {DestA} |-> c] : c \in {0, 1}}

\* the destinations of the task in which calls fail: empty, or a.dxd present
FaultDests == {EmptyDest, [p \in {DestA} |-> 1]}

\* a destination in which a.dxd and every a_N.dxd up to the cap exist
FullDest ==
    [p \in {DestA} \cup {Renamed(DestA, k) : k \in 1..MaxRenameAttempts} |-> 0]

FullTrees == {t \in SmallTrees : \A i \in 1..Len(t) : DestPath([file |-> t[i],
                                      key |-> "5.4.4",
                                      last_folder_name |-> LastFolderName(t[i])]) = DestA}

KeywordInputs == {<<"OF", "5.4.4">>, <<"OF">>, <<"foo">>}

(* ---------------- state ---------------- *)
VARIABLES
    src,                \* the source tree: file entries in scan order
    keywords,           \* the raw keyword list of the task
    destination_folder, \* the destination folder of the task, as a directory path
    dest,               \* the destination: existing file path -> content
    destDirs,           \* the destination subfolders that exist
    runsLeft,           \* task starts the caller may still request
    faultsLeft,         \* per-file OS errors the environment may still raise
    pc,                 \* where the worker is
    isRunning,          \* CopyWorker._is_running
    proceedFlag,        \* CopyWorker._proceed_with_copy
    viaCallback,        \* _start_actual_copy was entered through the resumption handle
    scanIdx,            \* search: next entry of src to look at
    skipped,            \* search: the entries of src a directory error made it pass over
    raisedDirs,         \* search: the directories whose scan raised an error
    matched_files_details,  \* search: the match records collected so far
    found_files_map,    \* search: the grouped index, keyword -> entries found by it
    paths,              \* all_paths_list of the task
    items_processed,    \* copy_files: records begun
    files_copied,       \* copy_files: files copied
    copied_hashes,      \* copy_files: the ledger, content hash -> destination path
    src_hash,           \* copy_files: hash of the record being handled
    now,                \* time units since the task began
    start_time,         \* copy_files: start of the copy phase
    completes,          \* copy_complete events of the task
    confirmations,      \* request_copy_confirmation events of the task
    errors,             \* error_occurred events of the task
    progress,           \* copy_progress_updated events of the task
    outcome,            \* how the task ended, "" while it has not
    written,            \* destination paths the task wrote, in order
    clobbered,          \* destination paths the task wrote over an existing file
    lastCopy,           \* the latest shutil.copy2 of the task that returned
    uniqueCall,         \* the latest call of get_unique_filename: path given and returned
    leftBehind,         \* destination paths at which a failed shutil.copy2 left a file
    faulted,            \* an OS error was raised to the task
    dirsCreated,        \* destination folders the task created
    handleInvoked,      \* the resumption handle of the task was called
    stopAt,             \* the phase in which stop() hit the running task, "" if none did
    putAtStop,          \* the number of files the task had put into the destination then
    taskNo,             \* tasks started so far
    stopQueued,         \* stop() was called while the request of the task was queued,
                        \* and the task has not passed a poll point since
    priorClean,         \* every earlier task ended "done" and met no fault
    controlsEnabled     \* gui.py: the start control is enabled (and the stop control hidden)

VARIABLES
    links,              \* the symbolic links in the source tree, in listing order
    walkStack,          \* the calls of search_files_for_copy in progress, innermost last:
                        \* the directory each is listing and the entries still to come
    rootsLeft,          \* the start directories the outermost call has not reached yet
    scandirCalls        \* the directories os.scandir was called on, in order

vars == <<links, walkStack, rootsLeft, scandirCalls, source_folders, src, keywords, destination_folder, dest, destDirs, runsLeft, faultsLeft, pc, isRunning, proceedFlag,
          viaCallback, scanIdx, skipped, raisedDirs, matched_files_details, found_files_map,
          paths, items_processed, files_copied,
          copied_hashes, src_hash, now, start_time, completes, confirmations, errors,
          progress, outcome, written, clobbered, lastCopy, uniqueCall, leftBehind, faulted,
          dirsCreated, handleInvoked, stopAt, putAtStop, taskNo, stopQueued, priorClean, controlsEnabled>>

inputVars == <<source_folders, src, keywords, destination_folder, links>>
walkVars == <<walkStack, rootsLeft, scandirCalls>>
fsVars == <<dest, destDirs>>
searchVars == <<scanIdx, skipped, raisedDirs, matched_files_details, found_files_map>>
copyVars == <<paths, items_processed, files_copied, copied_hashes, src_hash, start_time>>
ghostVars == <<written, clobbered, lastCopy, uniqueCall, leftBehind, faulted, dirsCreated, handleInvoked,
               stopAt, putAtStop, taskNo, stopQueued>>

NoCall == [given |-> <<>>, returned |-> <<>>, existed |-> FALSE]
NoCopy == [source |-> <<>>, computed |-> <<>>, final |-> <<>>, conflict |-> FALSE,
           existed |-> FALSE, freeName |-> FALSE]
EmptyIndex == [k \in {} |-> <<>>]
EmptyLedger == [h \in {} |-> <<>>]
ZeroResult == [files |-> 0, dirs |-> 0, duration |-> 0]

FoldersOf(d) == {p.folder : p \in DOMAIN d}

IsPrefix(a, b) == Len(a) <= Len(b) /\ SubSeq(b, 1, Len(a)) = a

\* a destination folder outside every source root
OutsideDir == << <<"d">> >>

\* os.path.join(destination_folder, last_folder_name) if last_folder_name
\* else destination_folder: the directory a destination path lies in
DestDir(d, folder) == IF folder = <<>> THEN d ELSE Append(d, folder)

\* the source file lies in a directory copy_files can write to
InDestination(d, f) == f.dir = d \/ (Len(f.dir) = Len(d) + 1 /\ IsPrefix(d, f.dir))

\* the destination path that names the source file
AsDest(d, f) ==
    [folder |-> IF f.dir = d THEN <<>> ELSE LastOf(f.dir), stem |-> f.stem, ext |-> f.ext]

\* what the destination holds of the source tree: nothing when the
\* destination folder is outside the source roots
SourceImage(d, tree) ==
    LET reach == {f \in Range(tree) : InDestination(d, f)}
    IN  [p \in {AsDest(d, f) : f \in reach} |->
             (CHOOSE f \in reach : AsDest(d, f) = p).content]

\* the subfolders of the destination folder that hold source files
SourceFolders(d, tree) ==
    {f.dir[Len(d) + 1] : f \in {g \in Range(tree) : IsPrefix(d, g.dir) /\ Len(g.dir) > Len(d)}}

\* CopyWorker.__init__, and the fields of a task before its first run
Constructed ==
    /\ destDirs = {<<>>} \cup FoldersOf(dest) \cup SourceFolders(destination_folder, src)
    /\ pc = "idle"
    /\ isRunning = FALSE
    /\ proceedFlag = FALSE
    /\ viaCallback = FALSE
    /\ walkStack = <<>>
    /\ rootsLeft = <<>>
    /\ scandirCalls = <<>>
    /\ scanIdx = 1
    /\ skipped = {}
    /\ raisedDirs = {}
    /\ matched_files_details = <<>>
    /\ found_files_map = EmptyIndex
    /\ paths = <<>>
    /\ items_processed = 0
    /\ files_copied = 0
    /\ copied_hashes = EmptyLedger
    /\ src_hash = 0
    /\ now = 0
    /\ start_time = 0
    /\ completes = <<>>
    /\ confirmations = <<>>
    /\ errors = 0
    /\ progress = <<>>
    /\ outcome = ""
    /\ written = <<>>
    /\ clobbered = {}
    /\ lastCopy = NoCopy
    /\ uniqueCall = NoCall
    /\ leftBehind = {}
    /\ faulted = FALSE
    /\ dirsCreated = {}
    /\ handleInvoked = FALSE
    /\ stopAt = ""
    /\ putAtStop = 0
    /\ taskNo = 0
    /\ stopQueued = FALSE
    /\ priorClean = TRUE
    /\ controlsEnabled = TRUE

\* source folder lists in which the second folder is inside the first
NestedRoots == {<<RootDir, DirX>>, <<RootDir, DirF>>}

\* the smallest number of files that, found twice, exceeds the threshold
NestedBatch == (ConfirmThreshold \div 2) + 1

Init ==
    /\ \/ source_folders = TwoRoots
          /\ src \in SmallTrees /\ dest \in SmallDests /\ keywords \in KeywordInputs
          /\ destination_folder = OutsideDir
          /\ runsLeft = MaxRuns /\ faultsLeft = 0
       \/ \* one task in which calls of the operating system fail
          source_folders = TwoRoots
          /\ src \in SmallTrees /\ dest \in FaultDests /\ keywords = <<"OF", "5.4.4">>
          /\ destination_folder = OutsideDir
          /\ runsLeft = 1 /\ faultsLeft = MaxFaults
       \/ source_folders = TwoRoots
          /\ src \in BulkTrees /\ dest = EmptyDest /\ keywords = <<"OF", "5.4.4">>
          /\ destination_folder = OutsideDir
          /\ runsLeft = 1 /\ faultsLeft = 0
       \/ source_folders = TwoRoots
          /\ src \in FullTrees /\ dest = FullDest /\ keywords = <<"OF", "5.4.4">>
          /\ destination_folder = OutsideDir
          /\ runsLeft = 1 /\ faultsLeft = 0
       \/ \* the destination folder is a source root (gui.py 238 asks only
          \* that it is a directory)
          source_folders = TwoRoots
          /\ src \in SmallTrees /\ destination_folder = RootDir
          /\ dest = SourceImage(destination_folder, src) /\ keywords \in KeywordInputs
          /\ runsLeft = 1 /\ faultsLeft = 0
       \/ \* a source folder lies inside another one (gui.py 207-211 refuses
          \* only a folder that is in the list already)
          source_folders \in NestedRoots
          /\ src \in SmallTrees \cup {BulkTree(NestedBatch)}
          /\ dest = EmptyDest /\ keywords = <<"OF", "5.4.4">>
          /\ destination_folder = OutsideDir
          /\ runsLeft = 1 /\ faultsLeft = 0
    /\ links = <<>>
    /\ Constructed

\* the task ends with the given outcome: the handler returns to the event loop
\* gui.py 306 and 318: on_copy_complete and show_error_message enable the
\* controls; a task that ends without an event leaves them as they are
ControlsAfter(how, enabled) == IF how = "crashed" THEN enabled ELSE TRUE

EndTask(how) ==
    /\ pc' = "idle"
    /\ outcome' = how
    /\ controlsEnabled' = ControlsAfter(how, controlsEnabled)
    /\ UNCHANGED priorClean

(* ---------------- the caller ---------------- *)
\* start_file_copy_signal.emit: the request is queued for the worker thread
StartTask ==
    /\ pc = "idle"
    /\ runsLeft > 0
    /\ outcome \in {"", "done"}
    /\ controlsEnabled
    /\ controlsEnabled' = FALSE
    /\ priorClean' = (outcome = "" \/ (priorClean /\ ~faulted))
    /\ runsLeft' = runsLeft - 1
    /\ pc' = "queued"
    /\ outcome' = ""
    /\ completes' = <<>>
    /\ confirmations' = <<>>
    /\ errors' = 0
    /\ progress' = <<>>
    /\ written' = <<>>
    /\ clobbered' = {}
    /\ lastCopy' = NoCopy
    /\ uniqueCall' = NoCall
    /\ leftBehind' = {}
    /\ faulted' = FALSE
    /\ dirsCreated' = {}
    /\ handleInvoked' = FALSE
    /\ stopAt' = ""
    /\ putAtStop' = 0
    /\ taskNo' = taskNo + 1
    /\ stopQueued' = FALSE
    /\ now' = 0
    /\ UNCHANGED <<inputVars, walkVars, fsVars, faultsLeft, isRunning, proceedFlag, viaCallback,
                   searchVars, copyVars>>

\* the phase of the task the worker is in
Phase(at) ==
    CASE at \in {"search", "searched"} -> "search"
      [] at \in {"start_copy", "copy", "hash_src", "to_dest", "copy_done"} -> "copy"
      [] OTHER -> at

\* a stop() that flips the flag instead of clearing it
StopFlag_Toggle(running) == ~running

\* lines 183-184: with the lock held, self._is_running = False
StopFlag(running) == FALSE

\* gui.py 254: self.set_controls_enabled(True), right after worker.stop()
ControlsAfterStop(enabled) == TRUE

\* gui.py 250-257, the stop control clicked: worker.stop() is called on the
\* caller's thread and the controls are enabled again at once; the control
\* is out of reach while the modal confirmation dialog is open (gui.py 267)
stop_task ==
    /\ ~controlsEnabled
    /\ pc # "awaiting"
    /\ isRunning' = StopFlag(isRunning)
    /\ stopAt' = IF stopAt = "" /\ pc \notin {"idle", "queued"} THEN Phase(pc) ELSE stopAt
    /\ putAtStop' = IF stopAt = "" /\ pc \notin {"idle", "queued"}
                    THEN Cardinality(Range(written) \cup leftBehind) ELSE putAtStop
    /\ stopQueued' = (stopQueued \/ pc = "queued")
    /\ controlsEnabled' = ControlsAfterStop(controlsEnabled)
    /\ UNCHANGED <<inputVars, walkVars, fsVars, runsLeft, faultsLeft, pc, proceedFlag, viaCallback,
                   searchVars, copyVars, now, completes, confirmations, errors, progress,
                   outcome, written, clobbered, lastCopy, uniqueCall, leftBehind, faulted, dirsCreated,
                   handleInvoked, taskNo, priorClean>>

\* CopyWorker.stop
stop ==
    /\ isRunning' = StopFlag(isRunning)
    /\ stopAt' = IF stopAt = "" /\ pc \notin {"idle", "queued"} THEN Phase(pc) ELSE stopAt
    /\ putAtStop' = IF stopAt = "" /\ pc \notin {"idle", "queued"}
                    THEN Cardinality(Range(written) \cup leftBehind) ELSE putAtStop
    /\ stopQueued' = (stopQueued \/ pc = "queued")
    /\ UNCHANGED <<inputVars, walkVars, fsVars, runsLeft, faultsLeft, pc, proceedFlag, viaCallback,
                   searchVars, copyVars, now, completes, confirmations, errors, progress,
                   outcome, written, clobbered, lastCopy, uniqueCall, leftBehind, faulted, dirsCreated,
                   handleInvoked, taskNo, priorClean, controlsEnabled>>

(* ---------------- run_file_copy_task ---------------- *)
\* lines 388-415: set the flag, emit progress 0, classify the keywords
RunBegin ==
    /\ pc = "queued"
    /\ proceedFlag' = FALSE
    /\ progress' = Append(progress, [kind |-> "start", value |-> 0])
    /\ scanIdx' = 1
    /\ skipped' = {}
    /\ raisedDirs' = {}
    /\ matched_files_details' = <<>>
    /\ found_files_map' = EmptyIndex
    /\ IF NoValidKeywords(keywords)
       THEN /\ completes' = Append(completes, ZeroResult)
            /\ isRunning' = FALSE
            /\ EndTask("no_keywords")
       ELSE /\ isRunning' = TRUE
            /\ pc' = "search"
            /\ UNCHANGED <<completes, outcome, priorClean, controlsEnabled>>
    /\ UNCHANGED <<inputVars, walkVars, fsVars, runsLeft, faultsLeft, viaCallback, copyVars, now,
                   confirmations, errors, ghostVars>>

\* the entry of the grouped index for a match record
GroupEntry(r) == [file |-> r.file, number |-> r.number,
                  last_folder_name |-> r.last_folder_name]

\* the entry appended to the group of some keyword, whatever found the file
AddToGroup_OneGroup(map, r) ==
    [k \in DOMAIN map \cup {"of"} |->
        IF k \in DOMAIN map THEN (IF k = "of" THEN Append(map[k], GroupEntry(r)) ELSE map[k])
        ELSE <<GroupEntry(r)>>]

\* line 151 (and 90-92 for the results of a sub-directory):
\* found_files_map.setdefault(found_by_keyword, []).append(...)
AddToGroup(map, r) ==
    [k \in DOMAIN map \cup {r.key} |->
        IF k \in DOMAIN map THEN (IF k = r.key THEN Append(map[k], GroupEntry(r)) ELSE map[k])
        ELSE <<GroupEntry(r)>>]

\* lines 439-453: the entries of the groups, each with the keyword of its
\* group, as the loop over found_files_map.items() meets them
RECURSIVE GroupRecords(_, _)
GroupRecords(map, keys) ==
    IF keys = {} THEN <<>>
    ELSE LET k == CHOOSE x \in keys : TRUE IN
         [i \in 1..Len(map[k]) |->
             [file |-> map[k][i].file, key |-> k, number |-> map[k][i].number,
              last_folder_name |-> map[k][i].last_folder_name]]
         \o GroupRecords(map, keys \ {k})

\* the entries of the tree in and below directory D, in scan order
UnderDir(tree, D) == SelectSeq(tree, LAMBDA f : IsPrefix(D, f.dir))

\* lines 53 and 80-93: the loop over current_dirs scans each start directory
\* with everything below it, one start directory after the other
RECURSIVE ScanOrder(_, _)
ScanOrder(tree, current_dirs) ==
    IF current_dirs = <<>> THEN <<>>
    ELSE UnderDir(tree, Head(current_dirs)) \o ScanOrder(tree, Tail(current_dirs))

\* the file entries the search of the task meets, in order
scan == ScanOrder(src, source_folders)

\* search_files_for_copy, one directory entry per step; the flag is polled
\* before each entry and the loop ends when the entries are exhausted
SearchStep ==
    /\ pc = "search"
    /\ IF ~isRunning \/ scanIdx > Len(scan)
       THEN /\ pc' = "searched"
            /\ UNCHANGED searchVars
       ELSE /\ pc' = pc
            /\ scanIdx' = scanIdx + 1
            /\ UNCHANGED <<skipped, raisedDirs>>
            /\ LET recs == MatchRecords(scan[scanIdx], pattern_keywords_set(keywords),
                                        number_keywords_set(keywords))
               IN  IF recs = {} THEN UNCHANGED <<matched_files_details, found_files_map>>
                   ELSE \E r \in recs :
                            /\ found_files_map' = AddToGroup(found_files_map, r)
                            /\ matched_files_details' = Append(matched_files_details, r)
    /\ stopQueued' = FALSE
    /\ UNCHANGED <<inputVars, walkVars, fsVars, runsLeft, faultsLeft, isRunning, proceedFlag,
                   viaCallback, copyVars, now, completes, confirmations, errors, progress,
                   outcome, written, clobbered, lastCopy, uniqueCall, leftBehind, faulted, dirsCreated,
                   handleInvoked, stopAt, putAtStop, taskNo, priorClean, controlsEnabled>>

\* the directories whose os.scandir iterator is advanced, or opened, to reach
\* entry i of the scan: the directory of the entry, and each directory above
\* it that the scan was not inside a subfolder of just before
RaisingDirs(i) ==
    {D \in {SubSeq(scan[i].dir, 1, n) : n \in 1..Len(scan[i].dir)} :
        \/ D = scan[i].dir
        \/ i = 1
        \/ ~IsPrefix(SubSeq(scan[i].dir, 1, Len(D) + 1), scan[i - 1].dir)}

\* a directory error taken as the end of the whole search
SkippedByError_All(D, i) == i..Len(scan)

\* lines 80 and 156-160: the error ends the for loop over os.scandir(D), so
\* what is left of the subtree of D is passed over
SkippedByError(D, i) == {j \in i..Len(scan) : IsPrefix(D, scan[j].dir)}

\* lines 80-160: os.scandir(D), its iterator or the handling of an entry of D
\* raises; the except clauses log it and the loop over current_dirs, or the
\* scan of the directory above, goes on
ScanError ==
    /\ pc = "search"
    /\ isRunning
    /\ scanIdx <= Len(scan)
    /\ faultsLeft > 0
    /\ faultsLeft' = faultsLeft - 1
    /\ faulted' = TRUE
    /\ \E D \in RaisingDirs(scanIdx) :
          LET gone == SkippedByError(D, scanIdx) IN
          /\ raisedDirs' = raisedDirs \cup {D}
          /\ skipped' = skipped \cup gone
          /\ scanIdx' = scanIdx + Cardinality(gone)
    /\ stopQueued' = FALSE
    /\ UNCHANGED <<inputVars, walkVars, fsVars, runsLeft, pc, isRunning, proceedFlag, viaCallback,
                   matched_files_details, found_files_map, copyVars, now, completes,
                   confirmations, errors,
                   progress, outcome, written, clobbered, lastCopy, uniqueCall, leftBehind, dirsCreated,
                   handleInvoked, stopAt, putAtStop, taskNo, priorClean, controlsEnabled>>

\* the check of the flag after the search left out
SearchReturnBranch_NoStopCheck(running, total_files_found) ==
    IF total_files_found = 0 THEN "nothing"
    ELSE IF NeedsConfirmation(total_files_found) THEN "confirm"
    ELSE "copy"

\* the test for an empty result left out
SearchReturnBranch_NoEmptyCheck(running, total_files_found) ==
    IF ~running THEN "stopped"
    ELSE IF NeedsConfirmation(total_files_found) THEN "confirm"
    ELSE "copy"

\* lines 430, 476 and 510: what happens when the search has returned
SearchReturnBranch(running, total_files_found) ==
    IF ~running THEN "stopped"
    ELSE IF total_files_found = 0 THEN "nothing"
    ELSE IF NeedsConfirmation(total_files_found) THEN "confirm"
    ELSE "copy"

\* lines 427-525: the search has returned
AfterSearch ==
    /\ pc = "searched"
    /\ paths' = all_paths_list(GroupRecords(found_files_map, DOMAIN found_files_map),
                                keywords)
    /\ LET branch == SearchReturnBranch(isRunning, Len(matched_files_details)) IN
       CASE branch = "stopped" ->
            /\ completes' = Append(completes, ZeroResult)
            /\ EndTask("stopped_search")
            /\ UNCHANGED <<isRunning, confirmations, viaCallback>>
         [] branch = "nothing" ->
            /\ completes' = Append(completes, ZeroResult)
            /\ isRunning' = FALSE
            /\ EndTask("no_results")
            /\ UNCHANGED <<confirmations, viaCallback>>
         [] branch = "confirm" ->
            /\ confirmations' = Append(confirmations, Len(matched_files_details))
            /\ pc' = "awaiting"
            /\ UNCHANGED <<isRunning, completes, viaCallback, outcome, priorClean, controlsEnabled>>
         [] OTHER ->
            /\ pc' = "start_copy"
            /\ viaCallback' = FALSE
            /\ UNCHANGED <<isRunning, completes, confirmations, outcome, priorClean, controlsEnabled>>
    /\ UNCHANGED <<inputVars, walkVars, fsVars, runsLeft, faultsLeft, proceedFlag, searchVars,
                   items_processed, files_copied, copied_hashes, src_hash, start_time, now,
                   errors, progress, ghostVars>>

\* lines 528-539: an exception escapes the body of run_file_copy_task
\* The handler without line 538: the error event replaces the completion event.
FailedCompletion_None(events) == events

\* file_copy.py 537-538: error_occurred.emit(...) is followed by
\* copy_complete.emit(0, 0, 0.0).
FailedCompletion(events) == Append(events, ZeroResult)

RaiseInTask ==
    /\ \/ pc \in {"search", "searched"}
       \/ pc \in {"copy", "hash_src", "to_dest"} /\ ~viaCallback
    /\ errors' = errors + 1
    /\ completes' = FailedCompletion(completes)
    /\ isRunning' = FALSE
    /\ EndTask("failed")
    /\ UNCHANGED <<inputVars, walkVars, fsVars, runsLeft, faultsLeft, proceedFlag, viaCallback,
                   searchVars, copyVars, now, confirmations, progress, ghostVars>>

\* an exception escapes copy_files after proceed_with_copy called the
\* resumption handle: run_file_copy_task has returned, nothing catches it
RaiseInCallback ==
    /\ pc \in {"copy", "hash_src", "to_dest"}
    /\ viaCallback
    /\ EndTask("crashed")
    /\ UNCHANGED <<inputVars, walkVars, fsVars, runsLeft, faultsLeft, isRunning, proceedFlag,
                   viaCallback, searchVars, copyVars, now, completes, confirmations,
                   errors, progress, ghostVars>>

(* ---------------- proceed_with_copy ---------------- *)
\* the decision ignored: the handle is called whenever the flag is set
ProceedBranch_IgnoreDecision(proceed, running) ==
    IF running THEN "callback" ELSE "cancelled"

\* the flag ignored: the handle is called whenever the decision is yes
ProceedBranch_IgnoreFlag(proceed, running) ==
    IF proceed THEN "callback" ELSE "declined"

\* lines 229-245: what proceed_with_copy does with the decision
ProceedBranch(proceed, running) ==
    IF proceed THEN (IF running THEN "callback" ELSE "cancelled") ELSE "declined"

\* the decision for the pending confirmation request arrives with its handle
proceed_with_copy ==
    /\ pc = "awaiting"
    /\ \E proceed \in BOOLEAN :
        /\ proceedFlag' = proceed
        /\ IF ProceedBranch(proceed, isRunning) = "callback"
           THEN /\ pc' = "start_copy"
                /\ viaCallback' = TRUE
                /\ handleInvoked' = TRUE
                /\ UNCHANGED <<isRunning, completes, outcome, priorClean, controlsEnabled>>
           ELSE /\ completes' = Append(completes, ZeroResult)
                /\ isRunning' = FALSE
                /\ EndTask(IF proceed THEN "stopped_awaiting" ELSE "declined")
                /\ UNCHANGED <<viaCallback, handleInvoked>>
    /\ UNCHANGED <<inputVars, walkVars, fsVars, runsLeft, faultsLeft, searchVars, copyVars, now,
                   confirmations, errors, progress, written, clobbered, lastCopy, uniqueCall,
                   leftBehind, faulted, dirsCreated, stopAt, putAtStop, taskNo, stopQueued>>

(* ---------------- _start_actual_copy and copy_files ---------------- *)
\* lines 485-493 and 262-266
StartActualCopy ==
    /\ pc = "start_copy"
    /\ IF ~isRunning
       THEN /\ completes' = Append(completes, ZeroResult)
            /\ isRunning' = FALSE
            /\ EndTask("stopped_before_copy")
            /\ UNCHANGED <<items_processed, files_copied, copied_hashes, start_time>>
       ELSE /\ files_copied' = 0
            /\ copied_hashes' = EmptyLedger
            /\ items_processed' = 0
            /\ start_time' = now
            /\ pc' = "copy"
            /\ UNCHANGED <<isRunning, completes, outcome, priorClean, controlsEnabled>>
    /\ UNCHANGED <<inputVars, walkVars, fsVars, runsLeft, faultsLeft, proceedFlag, viaCallback,
                   searchVars, paths, src_hash, now, confirmations, errors, progress,
                   ghostVars>>

\* a per-file error taken as the end of the batch
AfterFileError_Abort(at) == "copy_done"

\* the continue at lines 313, 318 and 324 and the except clauses at lines
\* 369-377: after an error in the handling of a record the inner loop goes on
\* with its next iteration, wherever the error arose
AfterFileError(at) == "copy"

\* lines 270-318: the loop heads, the progress event, the destination folder
\* and the source re-check of the next record
\* the loops of copy_files without their polls of the flag
LoopEnds_NoPoll(running, processed, total) == processed = total

\* lines 270-279 and 379: both loops break when the flag is cleared, and end
\* when the records are exhausted
LoopEnds(running, processed, total) == ~running \/ processed = total

CopyNext ==
    /\ pc = "copy"
    /\ IF LoopEnds(isRunning, items_processed, Len(paths))
       THEN /\ pc' = "copy_done"
            /\ UNCHANGED <<items_processed, progress, now, destDirs, dirsCreated, faultsLeft,
                           faulted>>
       ELSE LET folder == paths[items_processed + 1].last_folder_name IN
            /\ items_processed' = items_processed + 1
            /\ progress' = Append(progress, [kind |-> "record",
                                  value |-> Progress(items_processed + 1, Len(paths))])
            /\ now' = now + 1
            /\ \/ /\ destDirs' = destDirs \cup {folder}
                  /\ dirsCreated' = dirsCreated \cup ({folder} \ destDirs)
                  /\ pc' = "hash_src"
                  /\ UNCHANGED <<faultsLeft, faulted>>
               \/ \* os.makedirs raises OSError
                  /\ folder \notin destDirs
                  /\ faultsLeft > 0
                  /\ faultsLeft' = faultsLeft - 1
                  /\ faulted' = TRUE
                  /\ pc' = AfterFileError("makedirs")
                  /\ UNCHANGED <<destDirs, dirsCreated>>
               \/ \* the source is no longer a regular file
                  /\ faultsLeft > 0
                  /\ faultsLeft' = faultsLeft - 1
                  /\ faulted' = TRUE
                  /\ destDirs' = destDirs \cup {folder}
                  /\ dirsCreated' = dirsCreated \cup ({folder} \ destDirs)
                  /\ pc' = AfterFileError("isfile")
    /\ UNCHANGED <<inputVars, walkVars, dest, runsLeft, isRunning, proceedFlag, viaCallback, searchVars,
                   paths, files_copied, copied_hashes, src_hash, start_time, completes,
                   confirmations, errors, outcome, written, clobbered, lastCopy, uniqueCall,
                   leftBehind, handleInvoked, stopAt, putAtStop, taskNo, stopQueued, priorClean, controlsEnabled>>

\* the ledger never consulted
InLedger_Never(hash, ledger) == FALSE

\* line 327: src_hash in copied_hashes
InLedger(hash, ledger) == hash \in DOMAIN ledger

\* lines 320-333: hash the source, consult the ledger
CopyHashSrc ==
    /\ pc = "hash_src"
    /\ LET content == paths[items_processed].file.content IN
       IF HashPolls(content) /\ ~isRunning
       THEN pc' = "copy" /\ UNCHANGED <<src_hash, faultsLeft, faulted>>
       ELSE \/ \* reading the source raises OSError
               /\ faultsLeft > 0
               /\ faultsLeft' = faultsLeft - 1
               /\ faulted' = TRUE
               /\ pc' = AfterFileError("get_file_hash")
               /\ UNCHANGED src_hash
            \/ /\ UNCHANGED <<faultsLeft, faulted>>
               /\ IF InLedger(content, copied_hashes)
                  THEN pc' = "copy" /\ UNCHANGED src_hash
                  ELSE pc' = "to_dest" /\ src_hash' = content
    /\ UNCHANGED <<inputVars, walkVars, fsVars, runsLeft, isRunning, proceedFlag, viaCallback,
                   searchVars, paths, items_processed, files_copied, copied_hashes,
                   start_time, now, completes, confirmations, errors, progress, outcome,
                   written, clobbered, lastCopy, uniqueCall, leftBehind, dirsCreated, handleInvoked,
                   stopAt, putAtStop, taskNo, stopQueued, priorClean, controlsEnabled>>

\* lines 353-364: rename if needed, shutil.copy2, count, record in the ledger;
\* spent is the number of OS errors the handling of the record met before
DoCopy(dest_path, rename, spent) ==
    LET final == IF rename THEN get_unique_filename(DOMAIN dest, dest_path) ELSE dest_path
        content == paths[items_processed].file.content
    IN  /\ uniqueCall' = IF rename
                         THEN [given |-> dest_path, returned |-> final,
                               existed |-> final \in DOMAIN dest]
                         ELSE uniqueCall
        /\ \/ \* shutil.copy2 raises OSError: before it created the file, after
              \* it wrote part of it, or after it wrote all of it (copystat)
              /\ faultsLeft > spent
              /\ faultsLeft' = faultsLeft - spent - 1
              /\ faulted' = TRUE
              /\ pc' = AfterFileError("copy2")
              /\ UNCHANGED <<files_copied, copied_hashes, written, lastCopy>>
              /\ \/ UNCHANGED <<dest, clobbered, leftBehind>>
                 \/ \E left \in {0, content} :
                       /\ dest' = [p \in DOMAIN dest \cup {final} |->
                                      IF p = final THEN left ELSE dest[p]]
                       /\ clobbered' = clobbered \cup ({final} \cap DOMAIN dest)
                       /\ leftBehind' = leftBehind \cup {final}
           \/ /\ faultsLeft' = faultsLeft - spent
              /\ faulted' = (faulted \/ spent > 0)
              /\ pc' = "copy"
              /\ UNCHANGED leftBehind
              /\ dest' = [p \in DOMAIN dest \cup {final} |->
                             IF p = final THEN paths[items_processed].file.content
                             ELSE dest[p]]
              /\ files_copied' = files_copied + 1
              /\ copied_hashes' = [h \in DOMAIN copied_hashes \cup {src_hash} |->
                                      IF h = src_hash THEN final ELSE copied_hashes[h]]
              /\ written' = Append(written, final)
              /\ clobbered' = clobbered \cup ({final} \cap DOMAIN dest)
              /\ lastCopy' = [source |-> paths[items_processed].file,
                              computed |-> dest_path, final |-> final, conflict |-> rename,
                              existed |-> final \in DOMAIN dest,
                              freeName |-> \E k \in 1..MaxRenameAttempts :
                                               Renamed(dest_path, k) \notin DOMAIN dest]

\* the file at the destination path never taken for the same file
IdenticalAtDest_Never(dest_hash, hash) == FALSE

\* line 343: dest_hash == src_hash
IdenticalAtDest(dest_hash, hash) == dest_hash = hash

\* lines 335-364: the file at the computed destination path, then the copy
CopyToDest ==
    /\ pc = "to_dest"
    /\ LET dest_path == DestPath(paths[items_processed]) IN
       IF dest_path \notin DOMAIN dest
       THEN DoCopy(dest_path, FALSE, 0)
       ELSE IF HashPolls(dest[dest_path]) /\ ~isRunning
       THEN \* cancelled during the destination hash: break
            /\ pc' = "copy_done"
            /\ UNCHANGED <<dest, faultsLeft, files_copied, copied_hashes, written, clobbered,
                           lastCopy, uniqueCall, leftBehind, faulted>>
       ELSE \/ \* reading the destination file raises OSError: get_file_hash
               \* returns None and the flag decides between "Dest Hash
               \* Failed" (rename and copy) and break
               /\ faultsLeft > 0
               /\ IF isRunning
                  THEN DoCopy(dest_path, TRUE, 1)
                  ELSE /\ pc' = "copy_done"
                       /\ faultsLeft' = faultsLeft - 1
                       /\ faulted' = TRUE
                       /\ UNCHANGED <<dest, files_copied, copied_hashes, written,
                                      clobbered, lastCopy, uniqueCall, leftBehind>>
            \/ IF IdenticalAtDest(dest[dest_path], src_hash)
               THEN \* identical file exists at this destination path
                    /\ pc' = "copy"
                    /\ copied_hashes' = [h \in DOMAIN copied_hashes \cup {src_hash} |->
                                        IF h = src_hash THEN dest_path ELSE copied_hashes[h]]
                    /\ UNCHANGED <<dest, faultsLeft, files_copied, written, clobbered,
                                   lastCopy, uniqueCall, leftBehind, faulted>>
               ELSE DoCopy(dest_path, TRUE, 0)
    /\ now' = now + 1
    /\ UNCHANGED <<inputVars, walkVars, destDirs, runsLeft, isRunning, proceedFlag, viaCallback,
                   searchVars, paths, items_processed, src_hash, start_time, completes,
                   confirmations, errors, progress, outcome, dirsCreated, handleInvoked,
                   stopAt, putAtStop, taskNo, stopQueued, priorClean, controlsEnabled>>

\* the forced 100% emitted on both paths
FinalProgress_Always(running, events) == Append(events, [kind |-> "final", value |-> 100])

\* the forced 100% never emitted
FinalProgress_Never(running, events) == events

\* lines 496-505: the forced 100% is emitted on the not-stopped path only
FinalProgress(running, events) ==
    IF running THEN Append(events, [kind |-> "final", value |-> 100]) ELSE events

\* the completion event after the copy phase always a zero result
CompletionOf_Zero(copied, duration) == [files |-> 0, dirs |-> 0, duration |-> duration]

\* lines 501 and 505: the completion event after the copy phase
CompletionOf(copied, duration) == [files |-> copied, dirs |-> 0, duration |-> duration]

\* lines 381-384 and 495-506: copy_files returns, the completion is emitted
FinishCopy ==
    /\ pc = "copy_done"
    /\ completes' = Append(completes, CompletionOf(files_copied, now - start_time))
    /\ progress' = FinalProgress(isRunning, progress)
    /\ EndTask(IF isRunning THEN "done" ELSE "stopped_copy")
    /\ isRunning' = FALSE
    /\ UNCHANGED <<inputVars, walkVars, fsVars, runsLeft, faultsLeft, proceedFlag, viaCallback,
                   searchVars, copyVars, now, confirmations, errors, ghostVars>>

Next ==
    \/ StartTask
    \/ stop
    \/ stop_task
    \/ RunBegin
    \/ SearchStep
    \/ ScanError
    \/ AfterSearch
    \/ RaiseInTask
    \/ RaiseInCallback
    \/ proceed_with_copy
    \/ StartActualCopy
    \/ CopyNext
    \/ CopyHashSrc
    \/ CopyToDest
    \/ FinishCopy

Spec == Init /\ [][Next]_vars

(* ---------------- the worker under fair scheduling ---------------- *)
\* a step of the worker thread: the slot in hand goes on, or the queued
\* request is taken from the event queue
WorkerStep ==
    \/ RunBegin
    \/ SearchStep
    \/ ScanError
    \/ AfterSearch
    \/ RaiseInTask
    \/ RaiseInCallback
    \/ StartActualCopy
    \/ CopyNext
    \/ CopyHashSrc
    \/ CopyToDest
    \/ FinishCopy

\* the worker thread keeps running its slots, and a confirmation request is
\* answered (gui.py 266-275: the modal dialog returns and the answer is sent)
LiveSpec == Init /\ [][Next]_vars /\ WF_vars(WorkerStep) /\ WF_vars(proceed_with_copy)

(* ---------------- the search on its own ---------------- *)
Dir123 == << <<"r">>, <<"1.2.3">> >>

\* file names of every extension class, with and without a number in the
\* folder name, a number in the file name and a pattern keyword in it
MatchPaths ==
    << [dir |-> DirF,    stem |-> <<"b", "_", "OF">>,                  ext |-> ".xlsx"],
       [dir |-> DirF,    stem |-> <<"a">>,                             ext |-> ".xlsx"],
       [dir |-> DirF,    stem |-> <<"profile">>,                       ext |-> ".xlsx"],
       [dir |-> DirF,    stem |-> <<"a">>,                             ext |-> ".DXD"],
       [dir |-> DirF,    stem |-> <<"a">>,                             ext |-> ".txt"],
       [dir |-> DirX,    stem |-> <<"b", "_", "of">>,                  ext |-> ".xlsx"],
       [dir |-> DirX,    stem |-> <<"a", "_", "5.4.4", "_", "of">>,    ext |-> ".xlsx"],
       [dir |-> DirX,    stem |-> <<"a">>,                             ext |-> ".d7d"],
       [dir |-> Dir123,  stem |-> <<"a", "_", "5.4.4">>,               ext |-> ".dxd"],
       [dir |-> RootDir, stem |-> <<"a", "_", "5.4.4">>,               ext |-> ".d7d"],
       [dir |-> RootDir, stem |-> <<"a", "_", "5.4.4">>,               ext |-> ".txt"],
       [dir |-> Root2,   stem |-> <<"a", "_", "5.4.4">>,               ext |-> ".dxd"] >>

\* the trees of at most MaxFiles of these files, in scan order
MatchTrees ==
    {[k \in 1..Len(ix) |-> WithContent(MatchPaths[ix[k]], 0)] :
        ix \in {jx \in UNION {[1..n -> 1..Len(MatchPaths)] : n \in 0..MaxFiles} :
                    \A a \in DOMAIN jx : \A b \in DOMAIN jx : a < b => jx[a] < jx[b]}}

MatchKeywordInputs ==
    {<<"OF", "5.4.4">>, <<"5.4.4">>, <<"OF">>, <<"uf", " 5.4.4 ">>, <<"OF", "1.2.3", "5.4.4">>}

InitSearch ==
    /\ source_folders = TwoRoots
    /\ links = <<>>
    /\ src \in MatchTrees
    /\ destination_folder = OutsideDir
    /\ dest = EmptyDest
    /\ keywords \in MatchKeywordInputs
    /\ runsLeft = 1
    /\ faultsLeft \in {0, MaxFaults}
    /\ Constructed

\* a task up to the return of the search
NextSearch ==
    \/ StartTask
    \/ stop
    \/ RunBegin
    \/ SearchStep
    \/ ScanError
    \/ AfterSearch

SearchSpec == InitSearch /\ [][NextSearch]_vars

(* ---------------- get_unique_filename on its own ---------------- *)
\* the counters next to 1 and next to the cap that the destinations cover
MaxProbe == 3

\* a path that no destination holds
DestNew == [folder |-> <<"5.4.4", "_", "f">>, stem |-> <<"b">>, ext |-> ".dxd"]

\* the names next to a.dxd: a_1.dxd .. a_MaxProbe.dxd and the fallback name
NearNames ==
    {DestA, ManyDuplicates(DestA, MaxRenameAttempts + 1)} \cup
    {Renamed(DestA, k) : k \in 1..MaxProbe}

\* destinations full up to the cap but for at most one of the last names,
\* with and without the fallback name
NearCapNames ==
    {(DOMAIN FullDest \ gap) \cup extra :
        gap \in {{}} \cup {{Renamed(DestA, k)} :
                              k \in (MaxRenameAttempts - MaxProbe + 1)..MaxRenameAttempts},
        extra \in SUBSET {ManyDuplicates(DestA, MaxRenameAttempts + 1)}}

RenameDests == {[p \in S |-> 0] : S \in (SUBSET NearNames) \cup NearCapNames}

InitRename ==
    /\ source_folders = TwoRoots
    /\ links = <<>>
    /\ src = <<>>
    /\ destination_folder = OutsideDir
    /\ dest \in RenameDests
    /\ keywords = <<"5.4.4">>
    /\ runsLeft = 0
    /\ faultsLeft = 0
    /\ Constructed

\* lines 211-223: one call of get_unique_filename on the destination
UniqueName ==
    /\ uniqueCall = NoCall
    /\ \E dest_path \in {DestA, Renamed(DestA, 1), DestNew} :
          LET new_path == get_unique_filename(DOMAIN dest, dest_path) IN
          uniqueCall' = [given |-> dest_path, returned |-> new_path,
                         existed |-> new_path \in DOMAIN dest]
    /\ UNCHANGED <<inputVars, walkVars, fsVars, runsLeft, faultsLeft, pc, isRunning, proceedFlag,
                   viaCallback, searchVars, copyVars, now, completes, confirmations, errors,
                   progress, outcome, written, clobbered, lastCopy, leftBehind, faulted,
                   dirsCreated, handleInvoked, stopAt, putAtStop, taskNo, stopQueued,
                   priorClean, controlsEnabled>>

NextRename == UniqueName

RenameSpec == InitRename /\ [][NextRename]_vars

(* ---------------- the directory walk with symbolic links ---------------- *)
\* r/x/5.4.4_f, a numbered folder two levels below the source root
WalkTree ==
    << WithContent([dir |-> RootDir, stem |-> <<"a", "_", "5.4.4">>, ext |-> ".d7d"], 1),
       WithContent([dir |-> DirF,    stem |-> <<"b", "_", "OF">>,    ext |-> ".xlsx"], 2),
       WithContent([dir |-> DirX,    stem |-> <<"a">>,               ext |-> ".d7d"], 3),
       WithContent([dir |-> DirXF,   stem |-> <<"a">>,               ext |-> ".DXD"], 4) >>

\* symbolic links: one in r/x/5.4.4_f to the source root, one in r/x to r/x
\* itself, one in the root to r/5.4.4_f, one in the root to the file
\* r/a_5.4.4.d7d, and one in r/5.4.4_f to nothing; the names of the last two
\* would match the keywords
LinkCandidates ==
    << [dir |-> DirXF,   stem |-> <<"r">>,               ext |-> "",     to |-> "dir",  target |-> RootDir],
       [dir |-> DirX,    stem |-> <<"x">>,               ext |-> "",     to |-> "dir",  target |-> DirX],
       [dir |-> RootDir, stem |-> <<"f">>,               ext |-> "",     to |-> "dir",  target |-> DirF],
       [dir |-> RootDir, stem |-> <<"b", "_", "5.4.4">>, ext |-> ".dxd", to |-> "file", target |-> RootDir],
       [dir |-> DirF,    stem |-> <<"d", "_", "5.4.4">>, ext |-> ".dxd", to |-> "none", target |-> <<>>] >>

\* the sub-sequences of LinkCandidates
LinkChoices ==
    {[k \in 1..Len(ix) |-> LinkCandidates[ix[k]]] :
        ix \in {jx \in UNION {[1..n -> 1..Len(LinkCandidates)] : n \in 0..Len(LinkCandidates)} :
                    \A a \in DOMAIN jx : \A b \in DOMAIN jx : a < b => jx[a] < jx[b]}}

\* the directories of the tree in and below the source folders
RealDirs ==
    Range(source_folders) \cup
    {d \in UNION {{SubSeq(f.dir, 1, n) : n \in 1..Len(f.dir)} : f \in Range(src)} :
        \E root \in Range(source_folders) : IsPrefix(root, d)}

\* the entries os.scandir yields for the directory at real, reached as path:
\* its sub-directories and files in the order of the tree, then its links
Entries(path, real) ==
    LET below(i) == IsPrefix(real, src[i].dir)
        first(i) == \A j \in 1..(i - 1) :
                        ~(/\ IsPrefix(real, src[j].dir)
                          /\ Len(src[j].dir) > Len(real)
                          /\ src[j].dir[Len(real) + 1] = src[i].dir[Len(real) + 1])
        keep(i) == below(i) /\ (src[i].dir = real \/ first(i))
        idx == SelectSeq([i \in 1..Len(src) |-> i], keep)
        entry(i) ==
            IF src[i].dir = real
            THEN [kind |-> "file", dir |-> path, stem |-> src[i].stem, ext |-> src[i].ext,
                  content |-> src[i].content, to |-> "", target |-> <<>>]
            ELSE [kind |-> "dir", dir |-> path, stem |-> src[i].dir[Len(real) + 1], ext |-> "",
                  content |-> 0, to |-> "", target |-> real \o <<src[i].dir[Len(real) + 1]>>]
        here == SelectSeq(links, LAMBDA l : l.dir = real)
    IN  [k \in 1..Len(idx) |-> entry(idx[k])] \o
        [k \in 1..Len(here) |->
            [kind |-> "link", dir |-> path, stem |-> here[k].stem, ext |-> here[k].ext,
             content |-> 0, to |-> here[k].to, target |-> here[k].target]]

\* entry.is_dir() with the default follow_symlinks=True
is_dir_FollowLinks(entry) == entry.kind = "dir" \/ (entry.kind = "link" /\ entry.to = "dir")

\* line 85: entry.is_dir(follow_symlinks=False)
is_dir(entry) == entry.kind = "dir"

\* line 95: entry.is_file(follow_symlinks=False)
is_file(entry) == entry.kind = "file"

\* the call that lists the directory at real as path
Frame(path, real) == [path |-> path, real |-> real, todo |-> Entries(path, real)]

\* lines 390 and 417: the task sets the flag and calls search_files_for_copy
\* with the source folders as start directories
WalkBegin ==
    /\ pc = "idle"
    /\ pc' = "walk"
    /\ isRunning' = TRUE
    /\ rootsLeft' = source_folders
    /\ UNCHANGED <<inputVars, walkStack, scandirCalls, fsVars, runsLeft, faultsLeft,
                   proceedFlag, viaCallback, searchVars, copyVars, now, completes,
                   confirmations, errors, progress, outcome, ghostVars, priorClean,
                   controlsEnabled>>

\* lines 53-54 and 80: the outermost call takes its next start directory and
\* opens it, or returns when none is left or the flag is false
WalkDir ==
    /\ pc = "walk"
    /\ walkStack = <<>>
    /\ IF rootsLeft = <<>> \/ ~isRunning
       THEN /\ pc' = "walked"
            /\ UNCHANGED walkVars
       ELSE /\ pc' = pc
            /\ rootsLeft' = Tail(rootsLeft)
            /\ walkStack' = <<Frame(Head(rootsLeft), Head(rootsLeft))>>
            /\ scandirCalls' = Append(scandirCalls, Head(rootsLeft))
    /\ UNCHANGED <<inputVars, fsVars, runsLeft, faultsLeft, isRunning, proceedFlag,
                   viaCallback, searchVars, copyVars, now, completes, confirmations, errors,
                   progress, outcome, ghostVars, priorClean, controlsEnabled>>

\* lines 81-152: the innermost call takes its next entry: a directory is
\* searched by a call of its own, a file is matched against the keywords,
\* anything else is passed over
WalkEntry ==
    /\ pc = "walk"
    /\ walkStack # <<>>
    /\ LET n == Len(walkStack)
           top == walkStack[n]
           entry == Head(top.todo)
           rest == [walkStack EXCEPT ![n].todo = Tail(top.todo)]
           entry_path == top.path \o <<entry.stem>>
       IN  /\ top.todo # <<>>
           /\ isRunning
           /\ IF is_dir(entry)
              THEN /\ walkStack' = Append(rest, Frame(entry_path, entry.target))
                   /\ scandirCalls' = Append(scandirCalls, entry.target)
                   /\ UNCHANGED <<matched_files_details, found_files_map>>
              ELSE /\ walkStack' = rest
                   /\ UNCHANGED scandirCalls
                   /\ LET f == [dir |-> entry.dir, stem |-> entry.stem, ext |-> entry.ext,
                                content |-> entry.content]
                          recs == IF is_file(entry)
                                  THEN MatchRecords(f, pattern_keywords_set(keywords),
                                                    number_keywords_set(keywords))
                                  ELSE {}
                      IN  IF recs = {}
                          THEN UNCHANGED <<matched_files_details, found_files_map>>
                          ELSE \E r \in recs :
                                   /\ found_files_map' = AddToGroup(found_files_map, r)
                                   /\ matched_files_details' = Append(matched_files_details, r)
    /\ UNCHANGED <<inputVars, rootsLeft, fsVars, runsLeft, faultsLeft, pc, isRunning,
                   proceedFlag, viaCallback, scanIdx, skipped, raisedDirs, copyVars, now,
                   completes, confirmations, errors, progress, outcome, ghostVars,
                   priorClean, controlsEnabled>>

\* lines 82 and 90-93, 162: the entries of the directory are exhausted, or
\* the flag is false at the poll, and the call returns what it found to the
\* call above
WalkReturn ==
    /\ pc = "walk"
    /\ walkStack # <<>>
    /\ walkStack[Len(walkStack)].todo = <<>> \/ ~isRunning
    /\ walkStack' = SubSeq(walkStack, 1, Len(walkStack) - 1)
    /\ UNCHANGED <<inputVars, rootsLeft, scandirCalls, fsVars, runsLeft, faultsLeft, pc,
                   isRunning, proceedFlag, viaCallback, searchVars, copyVars, now, completes,
                   confirmations, errors, progress, outcome, ghostVars, priorClean,
                   controlsEnabled>>

InitWalk ==
    /\ source_folders = <<RootDir>>
    /\ links \in LinkChoices
    /\ src = WalkTree
    /\ destination_folder = OutsideDir
    /\ dest = EmptyDest
    /\ keywords = <<"OF", "5.4.4">>
    /\ runsLeft = 1
    /\ faultsLeft = 0
    /\ Constructed

\* a step of the thread that runs the search
WalkStep ==
    \/ WalkBegin
    \/ WalkDir
    \/ WalkEntry
    \/ WalkReturn

NextWalk ==
    \/ WalkBegin
    \/ WalkDir
    \/ WalkEntry
    \/ WalkReturn
    \/ stop

\* the search runs on a thread of its own that the scheduler does not starve
WalkSpec == InitWalk /\ [][NextWalk]_vars /\ WF_vars(WalkStep)

(* ======================= the claims ======================= *)
CopyPcs == {"copy", "hash_src", "to_dest", "copy_done"}
WrittenPaths == Range(written)

\* the suffix tokens of base_N.ext, for the N the rename loop can reach and
\* for every N
CappedSuffixes == {ToString(k) : k \in 1..MaxRenameAttempts}
NumeralSuffixes == {ToString(k) : k \in 1..(MaxRenameAttempts + 1)}

\* final is computed with _<suffix> put before the extension
HasRenamedForm(computed, final, suffixes) ==
    /\ final.folder = computed.folder
    /\ final.ext = computed.ext
    /\ Len(final.stem) = Len(computed.stem) + 2
    /\ SubSeq(final.stem, 1, Len(computed.stem)) = computed.stem
    /\ final.stem[Len(final.stem) - 1] = "_"
    /\ final.stem[Len(final.stem)] \in suffixes

IsFallbackName(p) ==
    Len(p.stem) >= 2 /\ p.stem[Len(p.stem) - 1] = "_ MANY_DUPLICATES_"

\* C1: every task that has ended, whatever its outcome, emitted exactly one
\* copy_complete event, and no task ever emits two.
C1_SingleCompletion ==
    /\ Len(completes) <= 1
    /\ outcome # "" => Len(completes) = 1

C3_NeverOverwrites ==
    /\ clobbered = {}
    /\ lastCopy.conflict =>
          /\ HasRenamedForm(lastCopy.computed, lastCopy.final, NumeralSuffixes)
          /\ ~lastCopy.existed

\* C3 amended: the only destination path a copy can write over is the "many
\* duplicates" fallback name; when the computed path holds different content
\* and one of base_1.ext .. base_1000.ext is free, the file is written to a
\* new path base_N.ext with N in 1..1000, and when none is free it is written
\* to the fallback name base_ MANY_DUPLICATES_1001.ext.
C3_NoOverwriteBelowCap ==
    /\ \A p \in clobbered : IsFallbackName(p)
    /\ lastCopy # NoCopy /\ ~lastCopy.conflict =>
          lastCopy.final = lastCopy.computed /\ ~lastCopy.existed
    /\ lastCopy.conflict /\ lastCopy.freeName =>
          /\ HasRenamedForm(lastCopy.computed, lastCopy.final, CappedSuffixes)
          /\ ~lastCopy.existed
    /\ lastCopy.conflict /\ ~lastCopy.freeName =>
          lastCopy.final = ManyDuplicates(lastCopy.computed, MaxRenameAttempts + 1)

\* C3 witness: a file whose computed path and whose base_1.ext were both
\* taken has been written to base_2.ext.
C3_Witness ==
    /\ lastCopy.conflict
    /\ lastCopy.final = Renamed(lastCopy.computed, 2)
    /\ ~lastCopy.existed

\* C4: a copy phase that follows a clean, completed copy phase over the same
\* sources, and completes cleanly itself, copies no file.
C4_RerunCopiesNothing ==
    (taskNo >= 2 /\ priorClean /\ outcome = "done" /\ ~faulted)
        => (written = <<>> /\ completes[1].files = 0)

\* C5: at most one confirmation request per task, carrying the match count
\* and emitted only above the threshold; a copy phase over 1..20 matches
\* runs without a request; above the threshold the request precedes the copy
\* phase and no file is written before proceed_with_copy(True, handle).
C5_ConfirmationThreshold ==
    /\ Len(confirmations) <= 1
    /\ confirmations # <<>> =>
          confirmations[1] = Len(paths) /\ Len(paths) >= ConfirmThreshold + 1
    /\ (pc \in CopyPcs /\ Len(paths) \in 1..ConfirmThreshold) => confirmations = <<>>
    /\ (pc \in {"awaiting", "start_copy"} \cup CopyPcs /\ Len(paths) >= ConfirmThreshold + 1)
          => Len(confirmations) = 1
    /\ (written # <<>> /\ Len(paths) >= ConfirmThreshold + 1)
          => (proceedFlag /\ handleInvoked /\ Len(confirmations) = 1)
    /\ pc = "awaiting" => written = <<>>

\* C5 witness: 21 matches, one request, and files copied after the yes.
C5_Witness ==
    /\ confirmations = <<ConfirmThreshold + 1>>
    /\ proceedFlag
    /\ written # <<>>

\* C6: a copy phase that ends with the flag cleared reports exactly the
\* files it copied, with the elapsed duration, and emits no forced 100%.
C6_CancelMidCopy ==
    outcome = "stopped_copy" =>
        /\ completes = <<[files |-> Len(written), dirs |-> 0, duration |-> now - start_time]>>
        /\ \A i \in 1..Len(progress) : progress[i].kind # "final"

\* C6 witness: stopped after some but not all of the files were copied.
C6_Witness ==
    /\ outcome = "stopped_copy"
    /\ stopAt = "copy"
    /\ Len(written) >= 1
    /\ Len(written) < Len(paths)
    /\ items_processed < Len(paths)

\* C7: a task in which an exception escaped the search, the confirmation or
\* the copy phase emitted one error_occurred and one copy_complete(0, 0, 0.0)
\* and left the flag false.
C7_ExceptionGoesToFailed ==
    outcome \in {"failed", "crashed"} =>
        /\ errors = 1
        /\ completes = <<ZeroResult>>
        /\ ~isRunning

\* C8: once the decision for the pending request was no, the task is over:
\* nothing copied, no folder created, one copy_complete(0, 0, 0.0), the
\* handle not called, the flag false.
C8_Declined ==
    (confirmations # <<>> /\ pc # "awaiting" /\ ~proceedFlag) =>
        /\ pc = "idle"
        /\ outcome = "declined"
        /\ written = <<>>
        /\ dirsCreated = {}
        /\ completes = <<ZeroResult>>
        /\ ~handleInvoked
        /\ ~isRunning

\* C8 witness: a task with a confirmation request ended as declined.
C8_Witness ==
    /\ outcome = "declined"
    /\ confirmations # <<>>
    /\ ~proceedFlag

\* C9: the handle is called, and the copy phase entered through it, only
\* with the flag set: when stop() came while the task awaited the decision
\* and the decision was yes, the handle is not called, nothing is copied and
\* the task ends with copy_complete(0, 0, 0.0).
C9_StopWhileAwaiting ==
    /\ (stopAt = "awaiting" /\ pc # "awaiting" /\ proceedFlag) =>
          /\ pc = "idle"
          /\ outcome = "stopped_awaiting"
          /\ ~handleInvoked
          /\ written = <<>>
          /\ completes = <<ZeroResult>>
    /\ (viaCallback /\ pc \in CopyPcs) => stopAt \in {"", "copy"}

\* C9 witness: stop() during the wait, then the decision yes.
C9_Witness ==
    /\ stopAt = "awaiting"
    /\ proceedFlag
    /\ outcome = "stopped_awaiting"

\* C10: when stop() came during the search, the task ends with
\* copy_complete(0, 0, 0.0), no confirmation request and no file copied,
\* whatever the search had collected.
C10_StopDuringSearch ==
    (stopAt = "search" /\ pc \notin {"search", "searched"}) =>
        /\ pc = "idle"
        /\ completes = <<ZeroResult>>
        /\ confirmations = <<>>
        /\ written = <<>>

\* C10 witness: stopped during the search with matches already collected.
C10_Witness ==
    /\ outcome = "stopped_search"
    /\ stopAt = "search"
    /\ Len(matched_files_details) >= 1

\* the base name of the immediate parent directory, nothing for a source root
Placement(dir) == IF dir \in source_roots THEN <<>> ELSE LastOf(dir)

Scanned == {scan[j] : j \in (1..(scanIdx - 1)) \ skipped}
MatchedFiles == {r.file : r \in Range(matched_files_details)}

\* the file has a number association: the number of its folder is a number
\* keyword, or a number keyword is in its lowercased, normalized name
HasNumberAssociation(f, number_keywords) ==
    \/ _extract_folder_number(LastOf(f.dir)) \in number_keywords
    \/ \E n \in number_keywords : NameContains(f, n)

\* the numbers a file can be associated with: the folder's when that is a
\* number keyword, otherwise a number keyword of the file name
AssociatedNumbers(f, number_keywords) ==
    IF _extract_folder_number(LastOf(f.dir)) \in number_keywords
    THEN {_extract_folder_number(LastOf(f.dir))}
    ELSE {n \in number_keywords : NameContains(f, n)}

\* C12: of the files the search has looked at, a .xlsx file is matched iff
\* it has a number association and a pattern keyword in its name, and is
\* keyed by such a pattern keyword; a .dxd or .d7d file is matched iff it has
\* a number association, and is keyed by its associated number.
C12_MatchRule ==
    pc \in {"search", "searched"} =>
        LET pk == pattern_keywords_set(keywords)
            nk == number_keywords_set(keywords)
        IN  /\ \A f \in Scanned :
                  /\ Lower(f.ext) = ".xlsx" =>
                        (f \in MatchedFiles <=>
                            /\ HasNumberAssociation(f, nk)
                            /\ \E k \in pk : NameContains(f, k))
                  /\ Lower(f.ext) \in {".dxd", ".d7d"} =>
                        (f \in MatchedFiles <=> HasNumberAssociation(f, nk))
            /\ \A r \in Range(matched_files_details) :
                  /\ r.number \in AssociatedNumbers(r.file, nk)
                  /\ Lower(r.file.ext) = ".xlsx" =>
                        r.key \in pk /\ NameContains(r.file, r.key)
                  /\ Lower(r.file.ext) \in {".dxd", ".d7d"} => r.key = r.number

\* C12 witness: in folder 5.4.4_f, b_OF.xlsx was matched under "of" and
\* a.DXD under "5.4.4".
C12_Witness ==
    /\ pc = "searched"
    /\ Len(matched_files_details) = 2
    /\ matched_files_details[1].file.dir = DirF
    /\ matched_files_details[1].file.ext = ".xlsx"
    /\ matched_files_details[1].key = "of"
    /\ matched_files_details[2].file.dir = DirF
    /\ matched_files_details[2].file.ext = ".DXD"
    /\ matched_files_details[2].key = "5.4.4"

\* C13: every match record, and every entry of the grouped index, is of a
\* file whose lowercased extension is a target extension and which has a
\* number association; a file without one is in neither.
C13_OnlyAssociatedTargets ==
    pc \in {"search", "searched", "awaiting", "start_copy"} =>
        LET nk == number_keywords_set(keywords)
            recs == Range(matched_files_details) \cup
                    (IF pc \in {"awaiting", "start_copy"} THEN Range(paths) ELSE {})
        IN  /\ \A r \in recs :
                  /\ Lower(r.file.ext) \in COPY_TARGET_EXTENSIONS
                  /\ HasNumberAssociation(r.file, nk)
            /\ \A f \in Scanned :
                  ~HasNumberAssociation(f, nk) => f \notin {r.file : r \in recs}

\* C13 witness: the search went over r/x/b_of.xlsx, which has a pattern
\* keyword and no number association, and over a matching file; only the
\* second is in the records and the index.
C13_Witness ==
    /\ pc = "start_copy"
    /\ \E f \in Scanned :
          /\ f.ext = ".xlsx"
          /\ NameContains(f, "of")
          /\ "of" \in pattern_keywords_set(keywords)
          /\ ~HasNumberAssociation(f, number_keywords_set(keywords))
    /\ Len(paths) = 1

\* C14: a task whose keywords classify to two empty sets ends at once:
\* one copy_complete(0, 0, 0.0), no search, no confirmation request, no
\* copy, no error_occurred, the flag false.
C14_NoKeywords ==
    (taskNo >= 1 /\ pc # "queued" /\ pattern_keywords_set(keywords) = {}
                /\ number_keywords_set(keywords) = {}) =>
        /\ pc = "idle"
        /\ outcome = "no_keywords"
        /\ completes = <<ZeroResult>>
        /\ scanIdx = 1
        /\ matched_files_details = <<>>
        /\ confirmations = <<>>
        /\ written = <<>>
        /\ dirsCreated = {}
        /\ errors = 0
        /\ ~isRunning

\* C14 witness: a task over a tree with files that match nothing because
\* no keyword is valid has ended.
C14_Witness ==
    /\ outcome = "no_keywords"
    /\ Len(src) >= 1
    /\ keywords # <<>>

\* C15: when the search has returned with no match and was not stopped,
\* the task is over: one copy_complete(0, 0, 0.0), no confirmation request,
\* no copy phase, the flag false; the confirmation and the copy phase are
\* only ever entered with at least one match.
C15_NoResults ==
    /\ (/\ taskNo >= 1
        /\ pc \notin {"queued", "search", "searched"}
        /\ ~(pattern_keywords_set(keywords) = {} /\ number_keywords_set(keywords) = {})
        /\ stopAt # "search"
        /\ outcome # "failed"
        /\ Len(paths) = 0) =>
            /\ pc = "idle"
            /\ outcome = "no_results"
            /\ completes = <<ZeroResult>>
            /\ confirmations = <<>>
            /\ written = <<>>
            /\ dirsCreated = {}
            /\ ~handleInvoked
            /\ ~isRunning
    /\ pc \in {"awaiting", "start_copy"} \cup CopyPcs => Len(paths) >= 1

\* C15 witness: the search went through a tree with files and matched none.
C15_Witness ==
    /\ outcome = "no_results"
    /\ Len(src) >= 1
    /\ scanIdx = Len(src) + 1
    /\ stopAt = ""

\* C16: a copy phase that returned with the flag set is followed by one
\* completion event with the number of files copied and the duration of
\* the copy phase, and then by the progress value 100, also when fewer
\* files were copied than were found.
C16_Done ==
    outcome = "done" =>
        /\ completes = <<[files |-> files_copied, dirs |-> 0, duration |-> now - start_time]>>
        /\ files_copied = Len(written)
        /\ progress # <<>>
        /\ progress[Len(progress)] = [kind |-> "final", value |-> 100]
        /\ \A i \in 1..(Len(progress) - 1) : progress[i].kind # "final"

\* C16 witness: done, with some of the files found copied and others skipped.
C16_Witness ==
    /\ outcome = "done"
    /\ Len(written) >= 1
    /\ Len(written) < Len(paths)

\* the files the task has put into the destination: by a copy that
\* returned, or by one that failed after it created the file
PutIntoDest == WrittenPaths \cup leftBehind

\* C17 as stated: in every outcome the completion event carries the number
\* of files the task wrote into the destination, which is at most the
\* number of matches, and 0 directories.
C17_ReportsFilesWritten ==
    \A i \in 1..Len(completes) :
        /\ outcome # "" => completes[i].files = Cardinality(PutIntoDest)
        /\ completes[i].files <= Len(paths)
        /\ completes[i].dirs = 0

\* C17 amended: a completion event that follows a copy phase which
\* returned (done, stopped during the copy) carries the number of copy
\* operations that completed in it; a completion event of any other outcome
\* carries 0, on the Failed path also when files were written before the
\* exception.  The number is at most the number of matches found, and the
\* number of directories is 0.
C17_ReportsCompletedCopies ==
    \A i \in 1..Len(completes) :
        /\ outcome \in {"done", "stopped_copy"} => completes[i].files = Len(written)
        /\ outcome \notin {"", "done", "stopped_copy"} => completes[i].files = 0
        /\ outcome \notin {"", "done", "stopped_copy", "failed"} => PutIntoDest = {}
        /\ completes[i].files <= Len(matched_files_details)
        /\ completes[i].files <= Len(paths)
        /\ completes[i].dirs = 0

\* C17 witness: a task failed after it had copied a file, and its
\* completion event carries 0.
C17_Witness ==
    /\ outcome = "failed"
    /\ Len(written) >= 1
    /\ completes = <<ZeroResult>>

\* C18: an error_occurred event is emitted only on the Failed path, at most once, and
\* the same handler emits the zero-result completion event of the task with it; the
\* NoKeywords, NoResults, declined, stopped and normally completed paths emit none.
C18_ErrorOnlyOnFailed ==
    /\ errors <= 1
    /\ errors >= 1 => outcome = "failed" /\ completes = <<ZeroResult>>
    /\ outcome \in {"no_keywords", "no_results", "declined", "stopped_search",
                    "stopped_before_copy", "stopped_awaiting", "stopped_copy",
                    "done"} => errors = 0

C18_Witness ==
    /\ outcome = "failed"
    /\ errors = 1
    /\ completes = <<ZeroResult>>
    /\ written = <<>>
    /\ Len(matched_files_details) >= 1

\* the destination folder is a source root or lies below one
DestinationInSource == \E r \in source_roots : IsPrefix(r, destination_folder)

\* the files under the source roots as they are now: those the search of
\* the task walked, and the files of the destination when it lies below a
\* source root
FilesUnderRoots ==
    Range(src) \cup
    (IF DestinationInSource
     THEN {[dir |-> DestDir(destination_folder, p.folder), stem |-> p.stem, ext |-> p.ext,
            content |-> dest[p]] : p \in DOMAIN dest}
     ELSE {})

\* the file of the source tree is where it was, with the content it had
Kept(f) ==
    InDestination(destination_folder, f) =>
        /\ AsDest(destination_folder, f) \in DOMAIN dest
        /\ dest[AsDest(destination_folder, f)] = f.content

\* C19 as stated: the set of files under the source roots and their contents
\* are the same after a task as before it, whatever its outcome.
C19_SourceTreeUnchanged == FilesUnderRoots = Range(src)

\* C19: no file that was under the source roots when the task began is
\* deleted, moved, renamed or rewritten, whatever the outcome; the set of files
\* under the source roots is unchanged when the destination folder is outside
\* the source roots, and otherwise it only gains the files the task wrote.
C19_SourceFilesKept ==
    /\ \A f \in Range(src) : Kept(f)
    /\ ~DestinationInSource => FilesUnderRoots = Range(src)
    /\ DestinationInSource =>
           \A g \in FilesUnderRoots \ Range(src) :
               \E p \in WrittenPaths \cup leftBehind :
                   /\ g.dir = DestDir(destination_folder, p.folder)
                   /\ g.stem = p.stem /\ g.ext = p.ext

C19_Witness ==
    /\ DestinationInSource
    /\ outcome = "done"
    /\ lastCopy.conflict
    /\ lastCopy.source \in Range(src)
    /\ lastCopy.computed \in DOMAIN SourceImage(destination_folder, src)

\* the fields of the worker and of its task other than the running flag
exceptRunning ==
    <<inputVars, walkVars, fsVars, runsLeft, faultsLeft, pc, proceedFlag, viaCallback, searchVars,
      copyVars, now, completes, confirmations, errors, progress, outcome>>

\* C20: stop() only clears the running flag and changes nothing else, so a
\* second stop() leaves the state the first one left; and once stop() has
\* cleared the flag of a task that has begun to run, no step sets the flag
\* back before the task has ended with its completion event.
C20_StopOnlyClears ==
    [][ /\ stop => (~isRunning' /\ UNCHANGED exceptRunning)
        /\ (stop /\ ~isRunning) => UNCHANGED <<isRunning, exceptRunning>>
        /\ (stopAt # "" /\ pc # "idle") => ~isRunning'
        /\ (stopAt' # "" /\ pc' # "idle") => ~isRunning' ]_vars

C20_Witness ==
    /\ stopAt = "copy"
    /\ outcome = "stopped_copy"
    /\ ~isRunning
    /\ Len(completes) = 1
    /\ items_processed < Len(paths)
    /\ files_copied >= 1

\* C21: every progress value of a task is an integer in 0..100, the value
\* emitted for the k-th processed record is floor(k / expectedTotal * 100), no
\* more records are processed than expected, and the values of a task never
\* decrease.
C21_ProgressValues ==
    /\ \A i \in 1..Len(progress) : progress[i].value \in 0..100
    /\ \A i \in 1..Len(progress) :
           progress[i].kind = "record" =>
               \* the start event is the first, so record k is event k + 1
               progress[i].value = ((i - 1) * 100) \div Len(paths)
    /\ pc \in {"copy", "hash_src", "to_dest", "copy_done"} => items_processed <= Len(paths)
    /\ \A i \in 1..(Len(progress) - 1) : progress[i].value <= progress[i + 1].value

\* a step in which the handling of a record meets one of the per-file errors
\* while the flag is set: the destination folder cannot be created or the
\* source is no longer a file, the source cannot be read for its hash, or
\* shutil.copy2 fails
FileErrorStep ==
    /\ isRunning
    /\ faultsLeft' < faultsLeft
    /\ \/ pc = "copy" /\ items_processed' = items_processed + 1
       \/ pc = "hash_src"
       \/ pc = "to_dest" /\ written' = written

\* C22: a per-file error skips only that file: the file is not counted, the
\* ledger is left as it was, the task goes on with the next iteration of the
\* loop, and a copy phase that ends with the flag still set has begun every
\* record of every group.
C22_FileErrorSkipsOneFile ==
    /\ [][FileErrorStep =>
              /\ files_copied' = files_copied
              /\ copied_hashes' = copied_hashes
              /\ pc' = "copy"
              /\ UNCHANGED <<paths, isRunning, outcome, completes, errors>>]_vars
    /\ []((pc = "copy_done" /\ isRunning) \/ outcome = "done"
              => items_processed = Len(paths))

C22_Witness ==
    /\ outcome = "done"
    /\ faulted
    /\ Len(paths) = 2
    /\ files_copied = 1
    /\ ~lastCopy.conflict
    /\ lastCopy.source = paths[2].file
    /\ paths[1].file.content # paths[2].file.content
    /\ DestPath(paths[1]) \notin DOMAIN dest

\* C23: a stop() called after the start of a task was requested and before
\* the completion event of that task is never lost, also when it is called
\* before run_file_copy_task has begun: from then on the flag is cleared at
\* every poll point of the task, so the search looks at no directory entry and
\* the copy phase begins no record.
C23_StopNeverLost ==
    /\ (stopQueued /\ pc = "search") => ~isRunning
    /\ (stopAt # "" /\ pc \notin {"idle", "queued"}) => ~isRunning

\* C24: the start control is enabled only when no task is waiting for its
\* completion (or fatal error) event, so the caller issues no new
\* run_file_copy_task request before the prior task has emitted that event.
C24_StartOnlyAfterCompletion == controlsEnabled => pc = "idle"

\* C25: once stop() has returned during the copy phase no further record is
\* begun; at most one more file, that of the record in hand, is put into the
\* destination; and the completion event of the stopped phase carries the
\* count of the files copied, the one in hand included.
C25_StopAbandonsRest ==
    /\ [][(stopAt = "copy" /\ pc # "idle") => items_processed' = items_processed]_vars
    /\ [](stopAt = "copy" =>
              /\ Cardinality(PutIntoDest) <= putAtStop + 1
              /\ outcome = "stopped_copy" =>
                     /\ Len(completes) = 1
                     /\ completes[1].files = files_copied
                     /\ files_copied = Len(written))

C25_Witness ==
    /\ stopAt = "copy"
    /\ outcome = "stopped_copy"
    /\ putAtStop = 1
    /\ Cardinality(PutIntoDest) = 2
    /\ completes[1].files = 2
    /\ items_processed < Len(paths)

\* the file is one the search matches when it looks at it
Matching(f) == MatchRecords(f, pattern_keywords_set(keywords),
                            number_keywords_set(keywords)) # {}

\* C26: a directory whose scan raises contributes nothing more from its
\* subtree, and nothing else is lost: every entry passed over lies in the
\* subtree of a directory that raised and has no match record, every file
\* looked at before or after the error that matches has its record, and a
\* search that returns with the flag set has passed over or looked at every
\* entry of every source root.
C26_DirectoryErrorSkipsSubtree ==
    pc \in {"search", "searched"} =>
        /\ \A j \in skipped :
              /\ \E D \in raisedDirs : IsPrefix(D, src[j].dir)
              /\ src[j] \notin MatchedFiles
        /\ \A f \in Scanned : Matching(f) => f \in MatchedFiles
        /\ (pc = "searched" /\ isRunning) => scanIdx = Len(src) + 1

C26_Witness ==
    /\ pc = "searched"
    /\ isRunning
    /\ raisedDirs = {DirX}
    /\ skipped = {1}
    /\ Matching(src[1])
    /\ Len(matched_files_details) = 1
    /\ matched_files_details[1].file = src[2]
    /\ src[2].dir \in {RootDir, Root2}

\* the records of the task are in (keyword, path) order: each is before the
\* next, or the two are the same record (a file found twice, see C33)
InCopyOrder(ps) ==
    \A i \in 1..Len(ps) : \A j \in 1..Len(ps) :
        i < j => (RecordLess(keywords, ps[i], ps[j]) \/ ps[i] = ps[j])

\* a record is begun, or a file is copied
CopyStep == items_processed' # items_processed \/ written' # written

IdenticalFoundStep ==
    LET dest_path == DestPath(paths[items_processed]) IN
    /\ pc = "to_dest"
    /\ pc' \in CopyPcs \ {pc}
    /\ dest_path \in DOMAIN dest
    /\ dest[dest_path] = src_hash
    /\ faultsLeft' = faultsLeft
    /\ HashPolls(dest[dest_path]) => isRunning

\* C28: when the file at the computed destination path has the hash of the
\* source, nothing is written, the copied count stays, the ledger gains
\* hash -> that path and the loop goes on; and no record whose content is in
\* the ledger is copied, so every later record of that content is skipped.
C28_IdenticalAtDestSkipped ==
    /\ [][IdenticalFoundStep =>
            /\ dest' = dest
            /\ written' = written
            /\ files_copied' = files_copied
            /\ src_hash \notin DOMAIN copied_hashes
            /\ DOMAIN copied_hashes' = DOMAIN copied_hashes \cup {src_hash}
            /\ copied_hashes'[src_hash] = DestPath(paths[items_processed])
            /\ \A h \in DOMAIN copied_hashes : copied_hashes'[h] = copied_hashes[h]
            /\ pc' = "copy"]_vars
    /\ [][(pc \in CopyPcs /\ (written' # written \/ files_copied' # files_copied)) =>
            paths[items_processed].file.content \notin DOMAIN copied_hashes]_vars

C28_Witness ==
    /\ outcome = "done"
    /\ Len(paths) = 2
    /\ items_processed = 2
    /\ paths[1].file.content = 1
    /\ paths[2].file.content = 1
    /\ DestPath(paths[1]) = DestA
    /\ DestPath(paths[2]) # DestA
    /\ files_copied = 0
    /\ written = <<>>
    /\ copied_hashes = [h \in {1} |-> DestA]
    /\ DOMAIN dest = {DestA}

\* what get_unique_filename returns for a path that exists: base_N.ext for the
\* smallest free N of 1..1000, the fallback name when none is free
RenameRule(call, existing) ==
    LET free == {N \in 1..MaxRenameAttempts : Renamed(call.given, N) \notin existing} IN
    /\ call.given \notin existing => call.returned = call.given
    /\ (call.given \in existing /\ free # {}) =>
          \E N \in free :
             /\ call.returned = Renamed(call.given, N)
             /\ \A k \in 1..(N - 1) : k \notin free
    /\ (call.given \in existing /\ free = {}) =>
          call.returned = ManyDuplicates(call.given, MaxRenameAttempts + 1)

\* C29 as stated: the path returned follows the rename rule and never names
\* an existing file.
C29_ReturnsFreeName ==
    uniqueCall # NoCall =>
        /\ RenameRule(uniqueCall, DOMAIN dest)
        /\ ~uniqueCall.existed

\* C29 amended: get_unique_filename(p) returns p when p does not exist,
\* otherwise base_N.ext for the smallest N of 1..1000 whose name is free, and
\* the fallback name base_ MANY_DUPLICATES_1001.ext when none is free; the
\* path returned names an existing file only when it is the fallback name and
\* that name exists already.
C29_FreeNameBelowCap ==
    uniqueCall # NoCall =>
        /\ RenameRule(uniqueCall, DOMAIN dest)
        /\ uniqueCall.existed <=>
              /\ uniqueCall.returned = ManyDuplicates(uniqueCall.given, MaxRenameAttempts + 1)
              /\ uniqueCall.returned \in DOMAIN dest

C29_Witness ==
    /\ uniqueCall.given = DestA
    /\ uniqueCall.returned = Renamed(DestA, MaxRenameAttempts)
    /\ ~uniqueCall.existed
    /\ \A k \in 1..(MaxRenameAttempts - 1) : Renamed(DestA, k) \in DOMAIN dest
    /\ ManyDuplicates(DestA, MaxRenameAttempts + 1) \in DOMAIN dest

\* the ledger of the step's end holds every entry of its beginning unchanged
LedgerKept == \A h \in DOMAIN copied_hashes :
                 h \in DOMAIN copied_hashes' /\ copied_hashes'[h] = copied_hashes[h]

\* C30: the ledger is empty when a copy phase begins; during the phase every
\* entry stays as it was first recorded; and the ledger changes only by
\* gaining one entry, the hash of the record in hand, either with the path
\* just copied to or with the computed destination path at which the
\* identical file was found.
C30_LedgerMonotone ==
    /\ [][(pc = "start_copy" /\ pc' = "copy") => copied_hashes' = EmptyLedger]_vars
    /\ [][(pc \in CopyPcs /\ pc' \in CopyPcs) => LedgerKept]_vars
    /\ [][(pc \in CopyPcs /\ copied_hashes' # copied_hashes) =>
            /\ DOMAIN copied_hashes' = DOMAIN copied_hashes \cup {src_hash}
            /\ src_hash \notin DOMAIN copied_hashes
            /\ src_hash = paths[items_processed].file.content
            /\ \/ /\ written' = Append(written, copied_hashes'[src_hash])
                  /\ files_copied' = files_copied + 1
                  /\ dest'[copied_hashes'[src_hash]] = src_hash
               \/ /\ written' = written
                  /\ dest' = dest
                  /\ copied_hashes'[src_hash] = DestPath(paths[items_processed])
                  /\ DestPath(paths[items_processed]) \in DOMAIN dest
                  /\ dest[DestPath(paths[items_processed])] = src_hash]_vars

C30_Witness ==
    /\ outcome = "done"
    /\ Len(paths) = 2
    /\ Cardinality(DOMAIN copied_hashes) = 2
    /\ copied_hashes[paths[1].file.content] = DestA
    /\ Len(written) = 1
    /\ written[1] # DestA
    /\ copied_hashes[paths[2].file.content] = written[1]
    /\ files_copied = 1

\* no handler of the worker is executing: nothing was started, the request
\* of a task is still queued, the task waits for the decision, or it is over
NoHandlerExecuting == pc \in {"idle", "queued", "awaiting"}

\* C31: when the completion event of a task has been emitted and its handler
\* has returned the flag is false, and the flag is true with no handler
\* executing only while the task waits for the decision on its confirmation
\* request and no stop() has come since the task began.
C31_FlagFalseWhenQuiescent ==
    /\ (pc = "idle" /\ completes # <<>>) => ~isRunning
    /\ (NoHandlerExecuting /\ isRunning) => (pc = "awaiting" /\ stopAt = "")

\* C32: every started task eventually emits its completion event, and after
\* a stop() has hit a running task that task eventually completes.
C32_EventuallyCompletes ==
    /\ (pc = "queued") ~> (completes # <<>>)
    /\ (stopAt # "") ~> (pc = "idle" /\ completes # <<>>)

\* the files the records of a list name
FilesOf(records) == {records[i].file : i \in 1..Len(records)}

\* C33: whatever the list of source folders, no file has two match records,
\* and the number of records handed to the copy phase (the count of the
\* confirmation request and the denominator of the progress values) is the
\* number of distinct matching files.
C33_EachFileOnce ==
    /\ Len(matched_files_details) = Cardinality(FilesOf(matched_files_details))
    /\ pc \in {"awaiting", "start_copy"} \cup CopyPcs =>
          Len(paths) = Cardinality(FilesOf(paths))
    /\ \A i \in 1..Len(confirmations) :
          confirmations[i] = Cardinality(FilesOf(matched_files_details))

\* how often record r is in the list of match records
TimesListed(r) ==
    Cardinality({i \in 1..Len(matched_files_details) : matched_files_details[i] = r})

\* how often the entry of record r is in the group of its key
TimesGrouped(r) ==
    IF r.key \in DOMAIN found_files_map
    THEN Cardinality({i \in 1..Len(found_files_map[r.key]) :
                         found_files_map[r.key][i] = GroupEntry(r)})
    ELSE 0

\* the number of entries of the grouped index
RECURSIVE SumLen(_, _)
SumLen(map, keys) ==
    IF keys = {} THEN 0
    ELSE LET k == CHOOSE x \in keys : TRUE IN Len(map[k]) + SumLen(map, keys \ {k})

\* C34: the grouped index and the list of match records hold the same
\* matches: every record is in the group of its key as often as it is in the
\* list (once, when the file was found once), every entry of a group belongs
\* to a record of the list with that key, no group is empty, and the total
\* after regrouping is the length of the list.
C34_IndexAgreesWithRecords ==
    /\ \A r \in Range(matched_files_details) :
          TimesGrouped(r) = TimesListed(r)
    /\ \A k \in DOMAIN found_files_map :
          /\ found_files_map[k] # <<>>
          /\ \A i \in 1..Len(found_files_map[k]) :
                \E r \in Range(matched_files_details) :
                    r.key = k /\ GroupEntry(r) = found_files_map[k][i]
    /\ SumLen(found_files_map, DOMAIN found_files_map) = Len(matched_files_details)
    /\ pc \in {"awaiting", "start_copy"} \cup CopyPcs =>
          Len(paths) = Len(matched_files_details)

C34_Witness ==
    /\ pc = "copy"
    /\ source_folders = TwoRoots
    /\ DOMAIN found_files_map = {"of", "5.4.4"}
    /\ Len(matched_files_details) = 2
    /\ matched_files_details[1].key = "5.4.4"
    /\ matched_files_details[2].key = "of"
    /\ Len(paths) = 2
    /\ paths[1].key = "5.4.4"

\* C35: when no keyword of the task is a number keyword the search finds
\* nothing, whatever the tree: no match record, no index entry, no
\* confirmation request, no copy phase, nothing written, only zero-result
\* completion events; and a task that was neither stopped nor failed and had
\* a valid keyword ends as "nothing found" with one zero-result completion.
C35_NoNumberKeywordNoMatch ==
    number_keywords_set(keywords) = {} =>
        /\ matched_files_details = <<>>
        /\ found_files_map = EmptyIndex
        /\ pc \notin {"awaiting", "start_copy"} \cup CopyPcs
        /\ confirmations = <<>>
        /\ written = <<>> /\ dirsCreated = {} /\ leftBehind = {}
        /\ \A i \in 1..Len(completes) : completes[i] = ZeroResult
        /\ (outcome # "" /\ stopAt = "" /\ errors = 0 /\ ~NoValidKeywords(keywords)) =>
              (outcome = "no_results" /\ Len(completes) = 1)

C35_Witness ==
    /\ keywords = <<"OF">>
    /\ outcome = "no_results"
    /\ completes = <<ZeroResult>>
    /\ Len(src) = 2
    /\ src[1].dir = DirF /\ src[1].stem = <<"b", "_", "of">> /\ src[1].ext = ".xlsx"
    /\ src[2].dir = RootDir /\ src[2].stem = <<"a", "_", "5.4.4">>
    /\ scanIdx = 3

\* C36: the associated number of every match record is a number keyword; it
\* is the number of the containing folder whenever that number is a number
\* keyword, whatever number keyword the file name holds, and a number
\* keyword found in the file name only when the folder gives no number match.
C36_FolderNumberFirst ==
    LET nk == number_keywords_set(keywords)
    IN  \A i \in 1..Len(matched_files_details) :
            LET r == matched_files_details[i]
                folder == _extract_folder_number(LastOf(r.file.dir))
            IN  /\ r.number \in nk
                /\ (folder # None /\ folder \in nk) => r.number = folder
                /\ ~(folder # None /\ folder \in nk) => NameContains(r.file, r.number)

\* C36 witness: with keywords OF, 1.2.3 and 5.4.4, a_5.4.4.dxd in folder
\* 1.2.3 got the folder number 1.2.3, and a_5.4.4.d7d in the source root,
\* which gives no number, got 5.4.4 from its name.
C36_Witness ==
    /\ pc = "searched"
    /\ keywords = <<"OF", "1.2.3", "5.4.4">>
    /\ Len(matched_files_details) = 2
    /\ matched_files_details[1].file.dir = Dir123
    /\ NameContains(matched_files_details[1].file, "5.4.4")
    /\ matched_files_details[1].number = "1.2.3"
    /\ matched_files_details[1].key = "1.2.3"
    /\ matched_files_details[2].file.dir = RootDir
    /\ matched_files_details[2].number = "5.4.4"

\* the files of the tree that the keywords of the task match
MatchingFiles ==
    {f \in Range(src) : MatchRecords(f, pattern_keywords_set(keywords),
                                     number_keywords_set(keywords)) # {}}

\* C37: the search of a tree with symbolic links, link cycles included,
\* comes to its end; on the way no directory is opened twice, no call lists a
\* directory reached through a link, the calls in progress are a chain of
\* nested real directories, and no record is of a link; an unstopped search
\* has opened every directory of the tree once and matched the real files.
C37_WalkTerminates ==
    /\ [](/\ \A i, j \in 1..Len(scandirCalls) : i # j => scandirCalls[i] # scandirCalls[j]
          /\ Range(scandirCalls) \subseteq RealDirs
          /\ \A i \in 1..Len(walkStack) :
                /\ walkStack[i].path = walkStack[i].real
                /\ Len(walkStack[i].real) = Len(source_folders[1]) + i - 1
                /\ i > 1 => IsPrefix(walkStack[i - 1].real, walkStack[i].real)
          /\ \A r \in Range(matched_files_details) : r.file \in Range(src)
          /\ (pc = "walked" /\ stopAt = "") =>
                /\ Range(scandirCalls) = RealDirs
                /\ MatchedFiles = MatchingFiles)
    /\ <>(pc = "walked")

\* C37 witness: a finished, unstopped search of a tree in which r/x/5.4.4_f
\* holds a link to the source root, r/x a link to itself, and the root a link
\* to a file, under a name that matches.
C37_Witness ==
    /\ pc = "walked"
    /\ stopAt = ""
    /\ \E i \in 1..Len(links) : links[i].dir = DirXF /\ links[i].target = RootDir
    /\ \E i \in 1..Len(links) : links[i].dir = DirX /\ links[i].target = DirX
    /\ \E i \in 1..Len(links) : links[i].to = "file"
    /\ Len(scandirCalls) = 4
    /\ Len(matched_files_details) = 3

====
